---- MODULE Spec2Model ----
(***************************************************************************)
(* ERP Manufacturing query service (apiendpoint/app): the HTTP pipeline of *)
(* app/main.py (TrustedHost -> block_write_operations -> CORS -> router -> *)
(* dependencies -> handler), the get_db session, the bearer-token          *)
(* dependency, and the pure computations of the endpoint handlers.         *)
(***************************************************************************)
EXTENDS Integers, Sequences, FiniteSets, TLC

VARIABLES
    env,        \* settings.ENVIRONMENT of the running process
    db,         \* the relational database (committed rows)
    db0,        \* history: the database as it was when the process started
    inflight,   \* per slot: the request that reached the router's handler stage
    last,       \* history: the most recently completed request and its response
    erp,        \* the bill_of_materials and inventory_balances tables
    mrp,        \* the latest call of calculate_material_requirements and its result
    tbl,        \* a paginated table, in the order the storage engine holds it
    page,       \* the latest answer of the paginated list endpoints
    agg,        \* the latest aggregate percentage calculation and its result
    exec,       \* per slot: a handler executing its queries, any of which may raise
    done,       \* history: the most recently ended handler execution
    http_into_deps, \* whether the framework raises a handler's HTTPException into get_db
    request_counts, \* MobileRateLimitMiddleware.request_counts: key -> admitted times
    now,        \* time.time() of the process
    forwarded,  \* history: per key, the times of the requests passed to call_next
    rl,         \* history: the latest request seen by the rate limiter and its answer
    dev,        \* the latest request classified by get_device_info and its response
    call        \* the latest call of one of the remaining endpoint functions

pipeVars == <<env, db, db0, inflight, last>>

pureVars == <<erp, mrp, tbl, page, agg>>

execVars == <<exec, done, http_into_deps>>

rateVars == <<request_counts, now, forwarded, rl>>

devVars == <<dev, call>>

extVars == <<execVars, rateVars, devVars>>

vars == <<env, db, db0, inflight, last, erp, mrp, tbl, page, agg, exec, done, http_into_deps,
         request_counts, now, forwarded, rl, dev, call>>

----------------------------------------------------------------------------
(* Bounds of the model *)

MaxInFlight == 2

Slots == 1..MaxInFlight

----------------------------------------------------------------------------
(* Settings (core/config.py) *)

API_PORT == 2025

COMMAND_PORT == 3108

JWT_SECRET == "your-secret-key-here"

ALGORITHM == "HS256"

Environments == {"development", "production"}

----------------------------------------------------------------------------
(* Requests *)

WriteMethods == {"POST", "PUT", "DELETE", "PATCH"}

Methods == {"GET", "OPTIONS", "HEAD"} \cup WriteMethods

\* Host headers, as sequences of labels.
HostLocal == <<"localhost">>
HostTle == <<"api", "tle", "co", "id">>
HostEvil == <<"evil", "example">>
Hosts == {HostLocal, HostTle, HostEvil}

\* Paths, as sequences of segments.
PathCalc == <<"erp", "bom", "calculate-requirements">>
PathBomP1 == <<"erp", "bom", "P1">>
PathOqc == <<"qc", "qc", "oqc">>
PathNone == <<"nope">>
Paths == {PathCalc, PathBomP1, PathOqc, PathNone}

\* Bearer tokens: the key and algorithm they were signed with, whether the
\* exp claim is in the past, and the payload's email claim ("" when absent).
NoToken == [present |-> FALSE, key |-> "", alg |-> "", expired |-> FALSE, email |-> ""]
Tok(k, a, x, e) == [present |-> TRUE, key |-> k, alg |-> a, expired |-> x, email |-> e]
Tokens ==
    { NoToken,
      Tok(JWT_SECRET, ALGORITHM, FALSE, "a@x"),
      Tok(JWT_SECRET, ALGORITHM, FALSE, "z@x"),
      Tok(JWT_SECRET, ALGORITHM, FALSE, ""),
      Tok(JWT_SECRET, ALGORITHM, TRUE, "a@x"),
      Tok("other-key", ALGORITHM, FALSE, "a@x"),
      Tok(JWT_SECRET, "none", FALSE, "a@x") }

\* CORS preflight: an OPTIONS request carrying Origin and
\* Access-Control-Request-Method, which the configured lists allow or not.
Preflights == {"none", "allowed", "disallowed"}

Requests ==
    { r \in [method : Methods, path : Paths, host : Hosts,
             preflight : Preflights, token : Tokens] :
        /\ (r.preflight # "none") => (r.method = "OPTIONS")
        /\ (r.token # NoToken) => (r.method = "GET" /\ r.path = PathOqc) }

----------------------------------------------------------------------------
(* Responses *)

NoUrl == [base |-> "", port |-> 0, path |-> <<>>]

\* Mutant: the URL built with the service's own port.
CommandUrl_ApiPort(path) == [base |-> "http://localhost:", port |-> API_PORT, path |-> path]

\* f"http://localhost:{settings.COMMAND_PORT}{request.url.path}"
CommandUrl(path) == [base |-> "http://localhost:", port |-> COMMAND_PORT, path |-> path]

Body(kind, url) == [kind |-> kind, command_service_url |-> url]

Resp(status, by, body) == [status |-> status, by |-> by, body |-> body]

Pass == Resp(0, "pass", Body("", NoUrl))

----------------------------------------------------------------------------
(* Middleware stack of app/main.py, outermost first.  add_middleware puts  *)
(* each new middleware in front of the earlier ones, so the order is       *)
(* TrustedHostMiddleware (production only), block_write_operations,        *)
(* CORSMiddleware, mobile_optimization_middleware, router.                 *)

AllowedHosts ==
    { [wild |-> FALSE, labels |-> <<"localhost">>],
      [wild |-> FALSE, labels |-> <<"127.0.0.1">>],
      [wild |-> TRUE,  labels |-> <<"tle", "co", "id">>] }

EndsWith(s, suf) ==
    /\ Len(s) >= Len(suf)
    /\ SubSeq(s, Len(s) - Len(suf) + 1, Len(s)) = suf

\* host == pattern, or pattern "*.x" and host ends with ".x"
HostValid(host) ==
    \E p \in AllowedHosts :
        \/ ~p.wild /\ host = p.labels
        \/ p.wild /\ Len(host) > Len(p.labels) /\ EndsWith(host, p.labels)

\* if settings.ENVIRONMENT == "production": app.add_middleware(TrustedHostMiddleware, ...)
TrustedHostMiddleware(e, r) ==
    IF e = "production" /\ ~HostValid(r.host)
    THEN Resp(400, "TrustedHostMiddleware", Body("Invalid host header", NoUrl))
    ELSE Pass

\* Mutant: the verb list without PATCH.
block_write_operations_NoPatch(r) ==
    IF r.method \in {"POST", "PUT", "DELETE"}
    THEN Resp(405, "block_write_operations",
              Body("CQRS Violation - Method Not Allowed",
                   [base |-> "http://localhost:", port |-> COMMAND_PORT, path |-> r.path]))
    ELSE Resp(0, "pass", Body("", NoUrl))

block_write_operations(r) ==
    IF r.method \in WriteMethods
    THEN Resp(405, "block_write_operations",
              Body("CQRS Violation - Method Not Allowed", CommandUrl(r.path)))
    ELSE Pass

\* A preflight request is answered by the CORS middleware itself.
CORSMiddleware(r) ==
    IF r.method = "OPTIONS" /\ r.preflight = "allowed"
    THEN Resp(200, "CORSMiddleware", Body("OK", NoUrl))
    ELSE IF r.method = "OPTIONS" /\ r.preflight = "disallowed"
    THEN Resp(400, "CORSMiddleware", Body("Disallowed CORS", NoUrl))
    ELSE Pass

----------------------------------------------------------------------------
(* Router: the routes in registration order; the first route whose path    *)
(* pattern matches the request path handles the request.                   *)

Param == "{param}"

\* api_router is included with the erp router first, then (among others) the
\* qc router, whose own prefix "/qc" is prefixed again by "/qc".
Routes ==
    << [path |-> <<"erp", "bom", Param>>, name |-> "get_bom_by_part", auth |-> FALSE],
       [path |-> <<"erp", "bom", "calculate-requirements">>,
        name |-> "calculate_material_requirements", auth |-> FALSE],
       [path |-> <<"qc", "qc", "oqc">>, name |-> "get_oqc_records", auth |-> TRUE] >>

\* A {param} segment matches any one non-empty segment.
PathMatches(pattern, path) ==
    /\ Len(pattern) = Len(path)
    /\ \A i \in 1..Len(pattern) : pattern[i] = Param \/ pattern[i] = path[i]

MatchingRoutes(path) == { i \in 1..Len(Routes) : PathMatches(Routes[i].path, path) }

\* 0 when no route matches, else the index of the first matching route.
RouteFor(path) ==
    IF MatchingRoutes(path) = {} THEN 0
    ELSE CHOOSE i \in MatchingRoutes(path) : \A j \in MatchingRoutes(path) : i <= j

\* What the router answers by itself: 404 for an unknown path, 405 for a
\* known path whose routes do not accept the method (every route is GET).
RouterResponse(r) ==
    IF RouteFor(r.path) = 0
    THEN Resp(404, "router", Body("Not Found", NoUrl))
    ELSE IF r.method # "GET"
    THEN Resp(405, "router", Body("Method Not Allowed", NoUrl))
    ELSE Pass

\* The response produced before any endpoint function is entered, or Pass.
EdgeResponse(e, r) ==
    IF TrustedHostMiddleware(e, r) # Pass THEN TrustedHostMiddleware(e, r)
    ELSE IF block_write_operations(r) # Pass THEN block_write_operations(r)
    ELSE IF CORSMiddleware(r) # Pass THEN CORSMiddleware(r)
    ELSE RouterResponse(r)

\* Whether block_write_operations was entered, and whether it called call_next.
ReachedCqrs(e, r) == TrustedHostMiddleware(e, r) = Pass
CalledNext(e, r) == ReachedCqrs(e, r) /\ block_write_operations(r) = Pass

----------------------------------------------------------------------------
(* Dependencies *)

\* jwt.decode(token, settings.JWT_SECRET, algorithms=[settings.ALGORITHM])
JwtDecodes(token) ==
    /\ token.key = JWT_SECRET
    /\ token.alg \in {ALGORITHM}
    /\ ~token.expired

\* Mutant: the user lookup's result is not checked.
get_current_user_NoUserCheck(token, users) ==
    /\ token.present
    /\ token.key = JWT_SECRET /\ token.alg \in {ALGORITHM} /\ ~token.expired
    /\ token.email # ""

\* get_current_user: TRUE iff it returns a user, FALSE iff it raises the 401.
get_current_user(token, users) ==
    /\ token.present
    /\ JwtDecodes(token)
    /\ token.email # ""
    /\ token.email \in users

Unauthorized == Resp(401, "get_current_user", Body("Tidak dapat memvalidasi kredensial", NoUrl))

----------------------------------------------------------------------------
(* Sessions and handlers *)

\* Mutant: an endpoint function that inserts a row and commits.
HandlerDbOps_Writes(name) == <<"query", "add", "commit">>

\* The statements an endpoint function issues on its session.
HandlerDbOps(name) ==
    CASE name = "get_bom_by_part" -> <<"query">>
      [] name = "calculate_material_requirements" -> <<"query", "query">>
      [] name = "get_oqc_records" -> <<"query", "query">>
      [] OTHER -> <<>>

\* One statement on a session [rows, pending] (autocommit=False).
ApplyOp(op, st) ==
    CASE op = "query"  -> st
      [] op = "add"    -> [st EXCEPT !.pending = st.pending \cup {"new-row"}]
      [] op = "commit" -> [rows |-> st.rows \cup st.pending, pending |-> {}]
      [] OTHER -> st

RECURSIVE ApplyOps(_, _)
ApplyOps(ops, st) ==
    IF ops = <<>> THEN st ELSE ApplyOps(Tail(ops), ApplyOp(Head(ops), st))

\* The response of the endpoint function once its dependencies resolved.
HandlerResponse(name, r, d) ==
    CASE name = "get_bom_by_part" ->
            IF r.path[3] \in d.bom
            THEN Resp(200, name, Body("success", NoUrl))
            ELSE Resp(404, name, Body("BOM not found for this part number", NoUrl))
      [] name = "calculate_material_requirements" ->
            \* the model's requests carry no query string: both required
            \* parameters are missing
            Resp(422, name, Body("Field required", NoUrl))
      [] OTHER -> Resp(200, name, Body("success", NoUrl))

----------------------------------------------------------------------------
(* State *)

NoReq == [method |-> "", path |-> <<>>, host |-> <<>>, preflight |-> "none", token |-> NoToken]

Idle == [stage |-> "idle", req |-> NoReq, handler |-> "none", session |-> "none",
         pending |-> {}, queries |-> 0, resp |-> Pass]

NoLast == [req |-> NoReq, resp |-> Pass, reached_cqrs |-> FALSE, called_next |-> FALSE,
           handler |-> "none", handler_ran |-> FALSE, queries |-> 0]

Users == {"a@x"}
Parts == {"P1"}

InitDbs == [users : {Users}, bom : SUBSET Parts, rows : {{"row"}}]

\* The state of the pure computations before any of them was applied.
NoMrp == [called |-> FALSE, parent |-> "", quantity |-> 0, items |-> <<>>,
          result |-> [status |-> 0, can_produce |-> FALSE, total_shortage |-> 0,
                      requirements |-> <<>>]]

NoPage == [called |-> FALSE, endpoint |-> "", limit |-> 0, offset |-> 0,
           status |-> 0, data |-> <<>>]

NoAgg == [called |-> FALSE, handler |-> "", status |-> 0, inputs |-> {}, rates |-> {}]

\* The state of the handler executions before any request.
NoAnswer == [status |-> 0, by |-> "", detail |-> <<>>]

NoExec == [stage |-> "idle", handler |-> "", pc |-> 0, events |-> <<>>,
           raised |-> "none", resp |-> NoAnswer, session |-> <<>>]

NoDone == [handler |-> "", events |-> <<>>, raised |-> "none", resp |-> NoAnswer,
           session |-> <<>>]

\* The rate limiter before any request: an empty dict.
EmptyDict == [k \in {} |-> <<>>]

NoRl == [seen |-> FALSE, device_id |-> "", key |-> "", limited |-> FALSE, at |-> 0, status |-> 0,
         retry_after |-> 0, forwarded |-> FALSE]

RateIdle ==
    /\ request_counts = EmptyDict
    /\ now = 0
    /\ forwarded = EmptyDict
    /\ rl = NoRl

ExecIdleState ==
    /\ exec = [s \in Slots |-> NoExec]
    /\ done = NoDone
    /\ http_into_deps = FALSE

NoDev == [seen |-> FALSE]

NoCall == [called |-> FALSE]

DevIdle ==
    /\ dev = NoDev
    /\ call = NoCall

ExtIdle ==
    /\ ExecIdleState
    /\ RateIdle
    /\ DevIdle

PureIdle ==
    /\ erp = [bom |-> {}, inv |-> <<>>]
    /\ mrp = NoMrp
    /\ tbl = <<>>
    /\ page = NoPage
    /\ agg = NoAgg

Init ==
    /\ env \in Environments
    /\ db \in InitDbs
    /\ db0 = db
    /\ inflight = [s \in Slots |-> Idle]
    /\ last = NoLast
    /\ PureIdle
    /\ ExtIdle

FreeSlots == { s \in Slots : inflight[s].stage = "idle" }

\* A request answered by a middleware or by the router itself.
AnswerAtEdge(r) ==
    /\ EdgeResponse(env, r) # Pass
    /\ last' = [req |-> r, resp |-> EdgeResponse(env, r),
                reached_cqrs |-> ReachedCqrs(env, r), called_next |-> CalledNext(env, r),
                handler |-> "none", handler_ran |-> FALSE, queries |-> 0]
    /\ UNCHANGED <<env, db, db0, inflight>>
    /\ UNCHANGED pureVars
    /\ UNCHANGED extVars

\* A GET that reaches a route: get_db opens the request's session.
Dispatch(r) ==
    /\ EdgeResponse(env, r) = Pass
    /\ FreeSlots # {}
    /\ LET s == CHOOSE x \in FreeSlots : \A y \in FreeSlots : x <= y
           route == Routes[RouteFor(r.path)]
       IN inflight' = [inflight EXCEPT ![s] =
              [stage |-> IF route.auth THEN "deps" ELSE "handler",
               req |-> r, handler |-> route.name, session |-> "open",
               pending |-> {}, queries |-> 0, resp |-> Pass]]
    /\ UNCHANGED <<env, db, db0, last>>
    /\ UNCHANGED pureVars
    /\ UNCHANGED extVars

\* The get_current_user dependency of a route that declares it.
Authenticate(s) ==
    /\ inflight[s].stage = "deps"
    /\ IF get_current_user(inflight[s].req.token, db.users)
       THEN inflight' = [inflight EXCEPT ![s].stage = "handler"]
       ELSE inflight' = [inflight EXCEPT ![s].stage = "close", ![s].resp = Unauthorized]
    /\ UNCHANGED <<env, db, db0, last>>
    /\ UNCHANGED pureVars
    /\ UNCHANGED extVars

\* The endpoint function runs its statements and builds its response.
RunHandler(s) ==
    /\ inflight[s].stage = "handler"
    /\ LET cur == inflight[s]
           st == ApplyOps(HandlerDbOps(cur.handler),
                          [rows |-> db.rows, pending |-> cur.pending])
       IN /\ db' = [db EXCEPT !.rows = st.rows]
          /\ inflight' = [inflight EXCEPT ![s] =
                 [cur EXCEPT !.stage = "close", !.pending = st.pending,
                             !.queries = Len(HandlerDbOps(cur.handler)),
                             !.resp = HandlerResponse(cur.handler, cur.req, db)]]
    /\ UNCHANGED <<env, db0, last>>
    /\ UNCHANGED pureVars
    /\ UNCHANGED extVars

\* get_db's finally: the session is closed (pending changes are discarded).
Finish(s) ==
    /\ inflight[s].stage = "close"
    /\ last' = [req |-> inflight[s].req, resp |-> inflight[s].resp,
                reached_cqrs |-> TRUE, called_next |-> TRUE,
                handler |-> inflight[s].handler,
                handler_ran |-> inflight[s].resp # Unauthorized,
                queries |-> inflight[s].queries]
    /\ inflight' = [inflight EXCEPT ![s] = Idle]
    /\ UNCHANGED <<env, db, db0>>
    /\ UNCHANGED pureVars
    /\ UNCHANGED extVars

AllIdle == \A s \in Slots : inflight[s].stage = "idle"

\* The service taking one request at a time, over every request of the model.
Next ==
    \/ \E r \in Requests : AnswerAtEdge(r)
    \/ \E r \in Requests : AllIdle /\ Dispatch(r)
    \/ \E s \in Slots : Authenticate(s)
    \/ \E s \in Slots : RunHandler(s)
    \/ \E s \in Slots : Finish(s)

Spec == Init /\ [][Next]_vars

\* Requests in flight together: up to MaxInFlight handlers hold a session at
\* once and their steps interleave freely.
CoreRequests ==
    { r \in Requests :
        /\ r.method \in {"GET", "POST"}
        /\ r.host = HostTle
        /\ r.token \in {NoToken, Tok(JWT_SECRET, ALGORITHM, FALSE, "a@x")} }

NextConc ==
    \/ \E r \in CoreRequests : AnswerAtEdge(r)
    \/ \E r \in CoreRequests : Dispatch(r)
    \/ \E s \in Slots : Authenticate(s)
    \/ \E s \in Slots : RunHandler(s)
    \/ \E s \in Slots : Finish(s)

SpecConc == Init /\ [][NextConc]_vars

----------------------------------------------------------------------------
(* Properties of the HTTP pipeline *)

Completed == last.req # NoReq

RouteDeclaresAuth(name) == \E i \in 1..Len(Routes) : Routes[i].name = name /\ Routes[i].auth

\* The token verifies against the shared secret with the configured
\* algorithm, carries an email, and a user with that email exists.
Authentic(token) ==
    /\ token.present
    /\ token.key = JWT_SECRET /\ token.alg = ALGORITHM /\ ~token.expired
    /\ token.email # ""
    /\ token.email \in db.users

\* C1: block_write_operations answers a request that reaches it with its 405
\* exactly when the method is POST, PUT, DELETE or PATCH; then call_next is
\* not called, no endpoint function and no query runs, and the body is the
\* fixed CQRS body; GET and OPTIONS are passed on to call_next.  No request
\* with one of the four verbs is ever in a handler.
C1_CqrsBlocksExactlyWrites ==
    /\ (Completed /\ last.reached_cqrs) =>
          /\ (last.resp.status = 405 /\ last.resp.by = "block_write_operations")
                <=> (last.req.method \in {"POST", "PUT", "DELETE", "PATCH"})
          /\ (last.req.method \in {"POST", "PUT", "DELETE", "PATCH"}) =>
                /\ ~last.called_next
                /\ last.handler = "none" /\ ~last.handler_ran /\ last.queries = 0
                /\ last.resp.body.kind = "CQRS Violation - Method Not Allowed"
          /\ (last.req.method \in {"GET", "OPTIONS"}) => last.called_next
    /\ \A s \in Slots : inflight[s].stage # "idle" =>
          inflight[s].req.method \notin {"POST", "PUT", "DELETE", "PATCH"}

C1_Witness ==
    /\ last.req.method = "PATCH" /\ last.req.path = PathOqc
    /\ last.resp.status = 405 /\ ~last.called_next

C3_DatabaseNeverChanges ==
    /\ db = db0
    /\ \A s \in Slots : inflight[s].pending = {}

C3_Witness ==
    /\ \E s, t \in Slots :
          /\ s # t
          /\ inflight[s].stage = "close" /\ inflight[s].queries > 0
          /\ inflight[t].stage = "handler"
    /\ last.handler_ran /\ last.queries > 0

\* C4: the endpoint function of a route that declares get_current_user runs
\* (and issues its queries) only for an authentic token; for every other
\* token the response is the 401 and no query of the function has run.
C4_HandlerOnlyWhenAuthenticated ==
    /\ \A s \in Slots :
          (inflight[s].stage # "idle" /\ RouteDeclaresAuth(inflight[s].handler)) =>
              /\ (inflight[s].stage = "handler" \/ inflight[s].queries > 0)
                    => Authentic(inflight[s].req.token)
              /\ (inflight[s].stage = "close" /\ ~Authentic(inflight[s].req.token))
                    => (inflight[s].resp.status = 401 /\ inflight[s].queries = 0)
    /\ (Completed /\ RouteDeclaresAuth(last.handler)) =>
          /\ last.handler_ran => Authentic(last.req.token)
          /\ ~Authentic(last.req.token) =>
                (last.resp.status = 401 /\ ~last.handler_ran /\ last.queries = 0)

C4_Witness ==
    /\ last.handler = "get_oqc_records"
    /\ last.req.token = Tok(JWT_SECRET, ALGORITHM, FALSE, "z@x")
    /\ last.resp.status = 401 /\ ~last.handler_ran

\* C7: a GET to /erp/bom/calculate-requirements that reaches an endpoint
\* function is handled by calculate_material_requirements.
C7_CalcRouteDispatched ==
    (Completed /\ last.req.method = "GET" /\ last.req.path = PathCalc
        /\ last.handler # "none") =>
        last.handler = "calculate_material_requirements"

----------------------------------------------------------------------------
(* calculate_material_requirements (erp_query.py).  Quantities are held in  *)
(* hundredths; every number carries the Python type it has in the handler:  *)
(* production_quantity is a float (the declared parameter type), the        *)
(* Numeric columns of bill_of_materials and inventory_balances are Decimal. *)

Scale == 100

Num(kind, v) == [kind |-> kind, v |-> v]

TypeError == Num("TypeError", 0)

\* Python's binary arithmetic refuses to mix float and Decimal.
Mixes(a, b) == {a.kind, b.kind} = {"float", "Decimal"}

ResultKind(a, b) ==
    IF "float" \in {a.kind, b.kind} THEN "float"
    ELSE IF "Decimal" \in {a.kind, b.kind} THEN "Decimal"
    ELSE "int"

PyMul(a, b) ==
    IF a = TypeError \/ b = TypeError \/ Mixes(a, b) THEN TypeError
    ELSE Num(ResultKind(a, b), (a.v * b.v) \div Scale)

PyAdd(a, b) ==
    IF a = TypeError \/ b = TypeError \/ Mixes(a, b) THEN TypeError
    ELSE Num(ResultKind(a, b), a.v + b.v)

PySub(a, b) ==
    IF a = TypeError \/ b = TypeError \/ Mixes(a, b) THEN TypeError
    ELSE Num(ResultKind(a, b), a.v - b.v)

\* float(x)
PyFloat(a) == IF a = TypeError THEN TypeError ELSE Num("float", a.v)

\* max(0, x)
PyMax0(a) == IF a = TypeError THEN TypeError ELSE IF a.v > 0 THEN a ELSE Num("int", 0)

\* A value read from a Numeric column.
NumericColumn(v) == Num("Decimal", v)

RECURSIVE SumSeq(_)
SumSeq(q) == IF q = <<>> THEN 0 ELSE Head(q) + SumSeq(Tail(q))

\* db.query(func.sum(InventoryBalance.available_quantity)).filter(...).scalar() or 0
AvailableOf(inv, child) ==
    IF inv[child] = <<>> \/ SumSeq(inv[child]) = 0
    THEN Num("int", 0)
    ELSE NumericColumn(SumSeq(inv[child]))

\* required_qty = production_quantity * item.quantity_required * (1 + item.scrap_factor)
RequiredQty(quantity, item) ==
    PyMul(PyMul(Num("float", quantity), NumericColumn(item.quantity_required)),
          PyAdd(Num("int", Scale), NumericColumn(item.scrap_factor)))

\* shortage = max(0, required_qty - float(available))
Shortage(required, available) == PyMax0(PySub(required, PyFloat(available)))

Requirement(quantity, item, inv) ==
    [child_part_number |-> item.child,
     total_required |-> RequiredQty(quantity, item),
     available_quantity |-> PyFloat(AvailableOf(inv, item.child)),
     shortage |-> Shortage(RequiredQty(quantity, item), AvailableOf(inv, item.child))]

\* The for loop: the requirements built so far and the running total_shortage,
\* or the exception that left the loop.
RECURSIVE RequirementsLoop(_, _, _, _, _)
RequirementsLoop(items, quantity, inv, requirements, total_shortage) ==
    IF items = <<>>
    THEN [raised |-> FALSE, requirements |-> requirements, total_shortage |-> total_shortage]
    ELSE LET req == Requirement(quantity, Head(items), inv)
             total == PyAdd(total_shortage, req.shortage)
         IN IF req.total_required = TypeError \/ req.shortage = TypeError \/ total = TypeError
            THEN [raised |-> TRUE, requirements |-> requirements,
                  total_shortage |-> total_shortage]
            ELSE RequirementsLoop(Tail(items), quantity, inv,
                                  Append(requirements, req), total)

MrpResult(status, can_produce, total_shortage, requirements) ==
    [status |-> status, can_produce |-> can_produce, total_shortage |-> total_shortage,
     requirements |-> requirements]

\* bom_items is the active BOM of the parent in the order the query returned it.
calculate_material_requirements(bom_items, quantity, inv) ==
    IF bom_items = <<>>
    THEN MrpResult(404, FALSE, 0, <<>>)
    ELSE LET loop == RequirementsLoop(bom_items, quantity, inv, <<>>, Num("int", 0))
         IN IF loop.raised
            THEN MrpResult(500, FALSE, 0, <<>>)
            ELSE MrpResult(200, loop.total_shortage.v = 0, loop.total_shortage.v,
                           loop.requirements)

\* The rows of bill_of_materials the model draws its table from.
BomRows ==
    { [parent |-> "P1", child |-> "C1", quantity_required |-> 200, scrap_factor |-> 0,
       active |-> TRUE],
      [parent |-> "P1", child |-> "C2", quantity_required |-> 100, scrap_factor |-> 50,
       active |-> TRUE],
      [parent |-> "P1", child |-> "C3", quantity_required |-> 100, scrap_factor |-> 0,
       active |-> FALSE] }

Children == {"C1", "C2", "C3"}

\* inventory_balances: per part, the available_quantity of each of its rows.
Inventories ==
    { [c \in Children |-> <<>>],
      [c \in Children |-> IF c = "C1" THEN <<100, 300>> ELSE <<>>],
      [c \in Children |-> IF c = "C1" THEN <<1000>> ELSE <<500, 500>>] }

ProductionQuantities == {-100, 0, 100, 200}

ParentParts == {"P1", "P2"}

\* BillOfMaterials.parent_part_number == parent and is_active == True
ActiveBom(parent) == { b \in erp.bom : b.parent = parent /\ b.active }

\* The orders in which a query without ORDER BY may return a set of rows.
Orderings(rows) ==
    { q \in [1..Cardinality(rows) -> rows] : \A i, j \in DOMAIN q : i # j => q[i] # q[j] }

InitMrp ==
    /\ env = "development"
    /\ db = [users |-> Users, bom |-> Parts, rows |-> {"row"}]
    /\ db0 = db
    /\ inflight = [s \in Slots |-> Idle]
    /\ last = NoLast
    /\ erp \in [bom : SUBSET BomRows, inv : Inventories]
    /\ mrp = NoMrp
    /\ tbl = <<>>
    /\ page = NoPage
    /\ agg = NoAgg
    /\ ExtIdle

CalculateRequirements(parent, quantity, items) ==
    /\ mrp' = [called |-> TRUE, parent |-> parent, quantity |-> quantity, items |-> items,
               result |-> calculate_material_requirements(items, quantity, erp.inv)]
    /\ UNCHANGED <<erp, tbl, page, agg>>
    /\ UNCHANGED pipeVars
    /\ UNCHANGED extVars

NextMrp ==
    \E parent \in ParentParts, quantity \in ProductionQuantities :
        \E items \in Orderings(ActiveBom(parent)) :
            CalculateRequirements(parent, quantity, items)

SpecMrp == InitMrp /\ [][NextMrp]_vars

\* The shortage of one BOM item as the documentation of the endpoint states it
\* (hundredths): max(0, quantity * quantity_required * (1 + scrap_factor) - available).
ExpectedRequired(quantity, item) ==
    (quantity * item.quantity_required * (Scale + item.scrap_factor)) \div (Scale * Scale)

ExpectedShortage(quantity, item) ==
    IF ExpectedRequired(quantity, item) - SumSeq(erp.inv[item.child]) > 0
    THEN ExpectedRequired(quantity, item) - SumSeq(erp.inv[item.child])
    ELSE 0

RECURSIVE SumShortages(_, _)
SumShortages(quantity, items) ==
    IF items = <<>> THEN 0
    ELSE ExpectedShortage(quantity, Head(items)) + SumShortages(quantity, Tail(items))

\* C5: a call of calculate_material_requirements on a part that has an active
\* BOM reports, for every BOM, production quantity and inventory state, a
\* shortage >= 0 per component, a total_shortage >= 0, and can_produce exactly
\* when total_shortage is 0.
C5_ShortagesNonNegative ==
    (mrp.called /\ mrp.items # <<>>) =>
        /\ mrp.result.status = 200
        /\ Len(mrp.result.requirements) = Len(mrp.items)
        /\ \A i \in 1..Len(mrp.result.requirements) :
              mrp.result.requirements[i].shortage.v >= 0
        /\ mrp.result.total_shortage >= 0
        /\ mrp.result.can_produce <=> (mrp.result.total_shortage = 0)

\* C6: for each active BOM component the call reports total_required =
\* production_quantity x quantity_required x (1 + scrap_factor), available =
\* the sum of the part's balances, shortage = max(0, total_required -
\* available), and total_shortage = the sum of the shortages.
C6_RequirementsFormula ==
    (mrp.called /\ mrp.items # <<>>) =>
        /\ mrp.result.status = 200
        /\ Len(mrp.result.requirements) = Len(mrp.items)
        /\ \A i \in 1..Len(mrp.result.requirements) :
              /\ mrp.result.requirements[i].total_required.v =
                    ExpectedRequired(mrp.quantity, mrp.items[i])
              /\ mrp.result.requirements[i].available_quantity.v =
                    SumSeq(erp.inv[mrp.items[i].child])
              /\ mrp.result.requirements[i].shortage.v =
                    ExpectedShortage(mrp.quantity, mrp.items[i])
        /\ mrp.result.total_shortage = SumShortages(mrp.quantity, mrp.items)
        /\ mrp.result.can_produce <=> (SumShortages(mrp.quantity, mrp.items) = 0)

----------------------------------------------------------------------------
(* Paginated list endpoints: query.[order_by(desc(key))].offset(o).limit(l) *)

\* limit: int = Query(100, le=1000)
LimitBound == 1000

\* Size of the large table of the model.
ManyRows == 1001

\* Largest sort key (created_at, movement_date) of the model's rows.
MaxKey == 2

Min(a, b) == IF a <= b THEN a ELSE b

Reverse(q) == [i \in 1..Len(q) |-> q[Len(q) + 1 - i]]

\* ORDER BY key DESC over rows arriving in the order q: rows with equal keys
\* keep the order in which the scan delivered them.
RECURSIVE OrderByKeyDesc(_, _)
OrderByKeyDesc(q, k) ==
    IF k < 0 THEN <<>>
    ELSE SelectSeq(q, LAMBDA row : row.key = k) \o OrderByKeyDesc(q, k - 1)

\* .offset(offset).limit(limit).all()
OffsetLimit(q, offset, limit) == SubSeq(q, offset + 1, Min(Len(q), offset + limit))

\* The list endpoints: whether limit is declared with le=1000 and whether the
\* query has an ORDER BY.
ListEndpoints ==
    { [name |-> "erp.get_inventory_movements", bounded |-> TRUE, ordered |-> TRUE],
      [name |-> "warehouse.get_inventory_balances", bounded |-> TRUE, ordered |-> FALSE],
      [name |-> "legacy.get_production_orders", bounded |-> FALSE, ordered |-> TRUE],
      [name |-> "legacy.get_oqc_records", bounded |-> FALSE, ordered |-> FALSE] }

\* The access paths the database may take for one statement: rows the ORDER BY
\* does not order (all rows, without one) come out in the order of the scan.
Plans == {"forward", "backward"}

Scan(plan, table) == IF plan = "forward" THEN table ELSE Reverse(table)

QueryRows(ep, plan, table) ==
    IF ep.ordered THEN OrderByKeyDesc(Scan(plan, table), MaxKey) ELSE Scan(plan, table)

\* The answer of a list endpoint: 422 from the le=1000 validation, or the page.
ListResponse(ep, limit, offset, plan, table) ==
    IF ep.bounded /\ limit > LimitBound
    THEN [called |-> TRUE, endpoint |-> ep.name, limit |-> limit, offset |-> offset,
          status |-> 422, data |-> <<>>]
    ELSE [called |-> TRUE, endpoint |-> ep.name, limit |-> limit, offset |-> offset,
          status |-> 200, data |-> OffsetLimit(QueryRows(ep, plan, table), offset, limit)]

Row(id, key) == [id |-> id, key |-> key]

Tables ==
    { <<>>,
      <<Row(1, 2), Row(2, 1), Row(3, 0)>>,
      <<Row(1, 1), Row(2, 1), Row(3, 0)>>,
      [i \in 1..ManyRows |-> Row(i, 0)] }

Limits == {1, 2, LimitBound, LimitBound + 1}

Offsets == {0, 1}

InitPage ==
    /\ env = "development"
    /\ db = [users |-> Users, bom |-> Parts, rows |-> {"row"}]
    /\ db0 = db
    /\ inflight = [s \in Slots |-> Idle]
    /\ last = NoLast
    /\ erp = [bom |-> {}, inv |-> <<>>]
    /\ mrp = NoMrp
    /\ tbl \in Tables
    /\ page = NoPage
    /\ agg = NoAgg
    /\ ExtIdle

ListRequest(ep, limit, offset, plan) ==
    /\ page' = ListResponse(ep, limit, offset, plan, tbl)
    /\ UNCHANGED <<erp, mrp, tbl, agg>>
    /\ UNCHANGED pipeVars
    /\ UNCHANGED extVars

NextPage ==
    \E ep \in ListEndpoints, limit \in Limits, offset \in Offsets, plan \in Plans :
        ListRequest(ep, limit, offset, plan)

SpecPage == InitPage /\ [][NextPage]_vars

\* C8: on every paginated endpoint, the legacy skip/limit ones included, a
\* request with limit > 1000 is rejected or clamped: no response holds more
\* than 1000 rows.
C8_LimitBounded ==
    page.called =>
        /\ Len(page.data) <= 1000
        /\ page.limit > 1000 => (page.status = 422 \/ Len(page.data) <= 1000)

\* C9: a request that repeats the endpoint and the offset/limit pair of the
\* request before it, over unchanged data, is answered with the same rows in
\* the same order.
C9_PaginationStable ==
    [][(/\ page.called /\ page'.called
        /\ tbl' = tbl
        /\ page'.endpoint = page.endpoint
        /\ page'.limit = page.limit
        /\ page'.offset = page.offset) =>
           page'.data = page.data]_vars

(***************************************************************************)
(* Aggregate percentages.  A percentage is held in hundredths of a percent *)
(* (Scale); a value the database may leave NULL is None or Some(v).  Each  *)
(* handler reports the inputs it aggregated and the rates of its response. *)
(***************************************************************************)

MaxCount == 2

Counts == 0..MaxCount

None == [null |-> TRUE, v |-> 0]

Some(v) == [null |-> FALSE, v |-> v]

\* Python truth value of a nullable number: None and 0 are false.
Truthy(x) == ~x.null /\ x.v # 0

\* Python's `x or default`.
Or(x, default) == IF Truthy(x) THEN x.v ELSE default

Max(a, b) == IF a >= b THEN a ELSE b

ZeroDivisionError == [error |-> TRUE, value |-> 0]

Value(v) == [error |-> FALSE, value |-> v]

RoundDiv(n, d) == (2 * n + d) \div (2 * d)

\* n / d * 100, kept to two decimals (step 1) or to one decimal (step 10);
\* Python's true division raises ZeroDivisionError on a zero divisor.
PyPercent(n, d, step) ==
    IF d = 0 THEN ZeroDivisionError
    ELSE Value(RoundDiv(n * 100 * Scale, d * step) * step)

Input(name, num, den) == [name |-> name, num |-> num, den |-> den]

Rate(name, result) == [name |-> name, error |-> result.error, value |-> result.value]

\* rendered as a string: "0%" for no orders, otherwise one decimal and "%"
completion_rate(total_orders, active_orders) ==
    IF total_orders > 0
    THEN PyPercent(total_orders - active_orders, total_orders, 10)
    ELSE Value(0)

utilization_rate(active_schedules, total_machines) ==
    IF total_machines > 0
    THEN PyPercent(active_schedules, total_machines, 10)
    ELSE Value(0)

oqc_pass_rate(passed_oqc, total_oqc_inspections) ==
    IF total_oqc_inspections > 0
    THEN PyPercent(passed_oqc, total_oqc_inspections, 1)
    ELSE Value(0)

inspection_pass_rate(passed_inspections, total_inspections) ==
    IF total_inspections > 0
    THEN PyPercent(passed_inspections, total_inspections, 1)
    ELSE Value(0)

closure_rate(closed_ncrs, total_ncrs) ==
    IF total_ncrs > 0 THEN PyPercent(closed_ncrs, total_ncrs, 1) ELSE Value(0)

variance_percentage(items_with_variance, total_items_counted) ==
    PyPercent(Or(items_with_variance, 0), Max(Or(total_items_counted, 1), 1), 1)

utilization_percentage(total_quantity, capacity) ==
    IF Truthy(capacity) /\ Truthy(total_quantity)
    THEN PyPercent(total_quantity.v, capacity.v, 1)
    ELSE Value(0)

\* The mapped columns of the models the QC dashboard queries.
OQC ==
    {"id", "part_number", "lot_number", "quantity_good", "quantity_ng",
     "inspection_date", "inspector_id", "notes", "created_at"}

QCInspectionResult ==
    {"id", "inspection_number", "qc_plan_id", "source_type", "source_reference_id",
     "lot_number", "part_number", "quantity_inspected", "quantity_passed",
     "quantity_failed", "quantity_rework", "inspector_id", "inspection_start_time",
     "inspection_end_time", "inspection_location", "measurement_data",
     "defect_codes", "corrective_actions", "inspector_notes", "inspection_status",
     "overall_result", "created_at", "updated_at"}

QCNonConformance ==
    {"id", "ncr_number", "inspection_result_id", "ncr_type", "part_number",
     "lot_number", "quantity_affected", "problem_description", "immediate_action",
     "priority", "status", "reported_by", "assigned_to", "target_close_date",
     "actual_close_date", "created_at", "updated_at"}

\* Reading a class attribute the model does not define raises AttributeError.
HasAttr(model, name) == name \in model

AggResponse(status, rates) == [status |-> status, rates |-> rates]

get_dashboard_summary(total_orders, active_orders, total_machines, active_schedules) ==
    AggResponse(200,
        { Rate("production.completion_rate",
               completion_rate(total_orders, active_orders)),
          Rate("machines.utilization_rate",
               utilization_rate(active_schedules, total_machines)) })

\* The whole body runs in a try block whose handler answers 500; the caller
\* is authenticated.
get_qc_dashboard_summary(c) ==
    IF /\ HasAttr(OQC, "created_at")
       /\ HasAttr(OQC, "overall_result")
       /\ HasAttr(QCInspectionResult, "inspection_start_time")
       /\ HasAttr(QCInspectionResult, "overall_result")
       /\ HasAttr(QCNonConformance, "created_at")
       /\ HasAttr(QCNonConformance, "status")
    THEN AggResponse(200,
             { Rate("oqc_summary.pass_rate",
                    oqc_pass_rate(c.passed_oqc, c.total_oqc_inspections)),
               Rate("inspection_summary.pass_rate",
                    inspection_pass_rate(c.passed_inspections, c.total_inspections)),
               Rate("ncr_summary.closure_rate",
                    closure_rate(c.closed_ncrs, c.total_ncrs)) })
    ELSE AggResponse(500, {})

get_variance_summary(items_with_variance, total_items_counted) ==
    AggResponse(200,
        { Rate("variance_percentage",
               variance_percentage(items_with_variance, total_items_counted)) })

NoLocation == [found |-> FALSE, capacity |-> None]

Location(capacity) == [found |-> TRUE, capacity |-> capacity]

get_location_utilization(location, total_quantity) ==
    IF ~location.found THEN AggResponse(404, {})
    ELSE AggResponse(200,
             { Rate("utilization_percentage",
                    utilization_percentage(total_quantity, location.capacity)) })

Nullable(S) == {None} \cup {Some(v) : v \in S}

\* the counts of one reporting period: a filtered count never exceeds the
\* count of the query it narrows
QcCounts ==
    { c \in [total_oqc_inspections : Counts, passed_oqc : Counts,
             total_inspections : Counts, passed_inspections : Counts,
             total_ncrs : Counts, closed_ncrs : Counts] :
        /\ c.passed_oqc <= c.total_oqc_inspections
        /\ c.passed_inspections <= c.total_inspections
        /\ c.closed_ncrs <= c.total_ncrs }

Locations == {NoLocation} \cup {Location(c) : c \in Nullable(Counts)}

Answered(handler, inputs, response) ==
    [called |-> TRUE, handler |-> handler, status |-> response.status,
     inputs |-> inputs, rates |-> response.rates]

InitAgg ==
    /\ env = "development"
    /\ db = [users |-> Users, bom |-> Parts, rows |-> {"row"}]
    /\ db0 = db
    /\ inflight = [s \in Slots |-> Idle]
    /\ last = NoLast
    /\ erp = [bom |-> {}, inv |-> <<>>]
    /\ mrp = NoMrp
    /\ tbl = <<>>
    /\ page = NoPage
    /\ agg = NoAgg
    /\ ExtIdle

GetDashboardSummary(total_orders, active_orders, total_machines, active_schedules) ==
    /\ active_orders <= total_orders
    /\ agg' = Answered("get_dashboard_summary",
                  { Input("production.completion_rate",
                          Some(total_orders - active_orders), Some(total_orders)),
                    Input("machines.utilization_rate",
                          Some(active_schedules), Some(total_machines)) },
                  get_dashboard_summary(total_orders, active_orders,
                                        total_machines, active_schedules))
    /\ UNCHANGED <<erp, mrp, tbl, page>>
    /\ UNCHANGED pipeVars
    /\ UNCHANGED extVars

GetQcDashboardSummary(c) ==
    /\ agg' = Answered("get_qc_dashboard_summary",
                  { Input("oqc_summary.pass_rate",
                          Some(c.passed_oqc), Some(c.total_oqc_inspections)),
                    Input("inspection_summary.pass_rate",
                          Some(c.passed_inspections), Some(c.total_inspections)),
                    Input("ncr_summary.closure_rate",
                          Some(c.closed_ncrs), Some(c.total_ncrs)) },
                  get_qc_dashboard_summary(c))
    /\ UNCHANGED <<erp, mrp, tbl, page>>
    /\ UNCHANGED pipeVars
    /\ UNCHANGED extVars

GetVarianceSummary(items_with_variance, total_items_counted) ==
    /\ Or(items_with_variance, 0) <= Or(total_items_counted, 0)
    /\ agg' = Answered("get_variance_summary",
                  { Input("variance_percentage",
                          items_with_variance, total_items_counted) },
                  get_variance_summary(items_with_variance, total_items_counted))
    /\ UNCHANGED <<erp, mrp, tbl, page>>
    /\ UNCHANGED pipeVars
    /\ UNCHANGED extVars

GetLocationUtilization(location, total_quantity) ==
    /\ agg' = Answered("get_location_utilization",
                  IF location.found
                  THEN {Input("utilization_percentage", total_quantity, location.capacity)}
                  ELSE {},
                  get_location_utilization(location, total_quantity))
    /\ UNCHANGED <<erp, mrp, tbl, page>>
    /\ UNCHANGED pipeVars
    /\ UNCHANGED extVars

NextAgg ==
    \/ \E total_orders \in Counts, active_orders \in Counts,
          total_machines \in Counts, active_schedules \in Counts :
           GetDashboardSummary(total_orders, active_orders,
                               total_machines, active_schedules)
    \/ \E c \in QcCounts : GetQcDashboardSummary(c)
    \/ \E items_with_variance \in Nullable(Counts),
          total_items_counted \in Nullable(Counts) :
           GetVarianceSummary(items_with_variance, total_items_counted)
    \/ \E location \in Locations, total_quantity \in Nullable(Counts) :
           GetLocationUtilization(location, total_quantity)

SpecAgg == InitAgg /\ [][NextAgg]_vars

\* C10: in every aggregate percentage calculation (completion_rate,
\* utilization_rate, the OQC and inspection pass_rate, the NCR closure_rate,
\* variance_percentage, utilization_percentage) a zero or missing denominator
\* yields the rate 0 in the response and never a division error.
C10_ZeroDenominatorYieldsZero ==
    agg.called =>
        \A i \in agg.inputs :
            ~Truthy(i.den) =>
                \E r \in agg.rates : r.name = i.name /\ ~r.error /\ r.value = 0

(***************************************************************************)
(* Handler executions.  A request that reached its route opens the get_db  *)
(* session, resolves get_current_user where the route declares it, runs    *)
(* the queries of the endpoint function one by one (each may return rows,  *)
(* return none, or raise), and leaves through get_db's except/finally.     *)
(***************************************************************************)

\* str(e) of the exception a failing query raises
ExcString == "OperationalError"

Answer(status, by, detail) == [status |-> status, by |-> by, detail |-> detail]

\* One endpoint function: whether it depends on get_current_user; its
\* queries in order ("query", "tolerated" for a query inside its own
\* try/except that substitutes a default, "lookup" for the query whose empty
\* result raises the 404 with the text notfound); whether the body is in a
\* try with `except Exception` raising HTTPException(500, prefix + str(e));
\* whether `except HTTPException: raise` precedes it; the exception that
\* building the response from the rows raises ("" when it succeeds).
Handler(name, auth, steps, try, reraises, prefix, notfound, build_error) ==
    [name |-> name, auth |-> auth, steps |-> steps, try |-> try,
     reraises |-> reraises, prefix |-> prefix, notfound |-> notfound,
     build_error |-> build_error]

HandlerTable ==
    { Handler("get_dashboard_summary", FALSE,
              <<"query", "query", "query", "tolerated", "query", "query",
                "tolerated", "query">>,
              TRUE, FALSE, "", "", ""),
      Handler("get_inventory_balances", TRUE, <<"query", "query">>,
              FALSE, FALSE, "", "", "ResponseValidationError"),
      Handler("get_bom_by_part", FALSE, <<"lookup">>,
              TRUE, TRUE, "", "BOM not found for this part number", ""),
      Handler("get_oqc_record", TRUE, <<"lookup">>,
              TRUE, TRUE, "Error retrieving OQC record: ", "OQC record not found",
              "AttributeError"),
      Handler("get_inspection_plan", TRUE, <<"lookup">>,
              TRUE, TRUE, "Error retrieving inspection plan: ",
              "Inspection plan not found", ""),
      Handler("get_production_order_detail", FALSE, <<"lookup">>,
              FALSE, FALSE, "", "Production order not found", ""),
      Handler("get_location_utilization", TRUE, <<"lookup", "query">>,
              FALSE, FALSE, "", "Location tidak ditemukan", ""),
      Handler("get_cycle_count_details", TRUE, <<"lookup">>,
              FALSE, FALSE, "", "Cycle count tidak ditemukan", "") }

HandlerNamed(name) == CHOOSE h \in HandlerTable : h.name = name

\* The 500 of block_write_operations' except clause: a fixed body, no detail.
QueryServiceError == Answer(500, "block_write_operations", <<>>)

\* An exception e raised in the endpoint function: the function's own
\* `except Exception` turns it into HTTPException(500, prefix + str(e));
\* without one it travels up to block_write_operations.
OnException(h, e) ==
    IF h.try THEN [raised |-> "HTTPException", resp |-> Answer(500, h.name, <<h.prefix, e>>)]
    ELSE [raised |-> "Exception", resp |-> QueryServiceError]

\* Mutant: a function whose generic clause also takes the 404.
OnNotFound_Swallowed(h) ==
    IF h.try
    THEN [raised |-> "HTTPException", resp |-> Answer(500, h.name, <<h.prefix, h.notfound>>)]
    ELSE [raised |-> "HTTPException", resp |-> Answer(404, h.name, <<h.notfound>>)]

\* The HTTPException(404) of a lookup that found no row: HTTPException is an
\* Exception, so inside a try only `except HTTPException: raise` keeps it
\* from the generic clause.
OnNotFound(h) ==
    IF h.try /\ ~h.reraises
    THEN [raised |-> "HTTPException", resp |-> Answer(500, h.name, <<h.prefix, h.notfound>>)]
    ELSE [raised |-> "HTTPException", resp |-> Answer(404, h.name, <<h.notfound>>)]

credentials_exception ==
    [raised |-> "HTTPException",
     resp |-> Answer(401, "get_current_user", <<"Tidak dapat memvalidasi kredensial">>)]

\* Mutant: a get_db that closes the session on the normal path only.
get_db_exit_NoFinally(raised, into_deps) ==
    IF raised = "Exception" \/ (raised = "HTTPException" /\ into_deps)
    THEN <<"rollback">>
    ELSE <<"close">>

\* What get_db does after its yield: an exception raised into the generator
\* is answered with rollback and re-raised; the finally closes the session.
get_db_exit(raised, into_deps) ==
    IF raised = "Exception" \/ (raised = "HTTPException" /\ into_deps)
    THEN <<"rollback", "close">>
    ELSE <<"close">>

Event(step, outcome) == <<step, outcome>>

\* every variable the handler executions leave alone
notExecVars == <<pipeVars, pureVars, rateVars, devVars>>

Outcomes == {"rows", "none", "raise"}

AuthOutcomes == {"user", "rejected", "raise"}

InitExec ==
    /\ env = "development"
    /\ db = [users |-> Users, bom |-> Parts, rows |-> {"row"}]
    /\ db0 = db
    /\ inflight = [s \in Slots |-> Idle]
    /\ last = NoLast
    /\ PureIdle
    /\ RateIdle
    /\ DevIdle
    /\ exec = [s \in Slots |-> NoExec]
    /\ done = NoDone
    /\ http_into_deps \in BOOLEAN

Leave(cur, event, out) ==
    [cur EXCEPT !.stage = "exit", !.events = Append(cur.events, event),
                !.raised = out.raised, !.resp = out.resp]

FreeExecSlots == { s \in Slots : exec[s].stage = "idle" }

\* The route is matched and get_db opens the request's session.
StartRequest(h) ==
    /\ FreeExecSlots # {}
    /\ LET s == CHOOSE x \in FreeExecSlots : \A y \in FreeExecSlots : x <= y
       IN exec' = [exec EXCEPT ![s] =
              [stage |-> IF h.auth THEN "auth" ELSE "run", handler |-> h.name, pc |-> 1,
               events |-> <<>>, raised |-> "none", resp |-> NoAnswer,
               session |-> <<"open">>]]
    /\ UNCHANGED <<done, http_into_deps>>
    /\ UNCHANGED notExecVars

\* get_current_user on the request's session: the user row is found, the
\* credentials are rejected with the 401, or the user query raises.
ResolveUser(s, outcome) ==
    /\ exec[s].stage = "auth"
    /\ LET cur == exec[s]
           ev == Event("get_current_user", outcome)
       IN exec' = [exec EXCEPT ![s] =
              CASE outcome = "user" ->
                     [cur EXCEPT !.stage = "run", !.events = Append(cur.events, ev)]
                [] outcome = "rejected" -> Leave(cur, ev, credentials_exception)
                [] OTHER ->
                     Leave(cur, ev, [raised |-> "Exception", resp |-> QueryServiceError])]
    /\ UNCHANGED <<done, http_into_deps>>
    /\ UNCHANGED notExecVars

\* The next query of the endpoint function: it returns rows or raises; a
\* lookup by key may also match no row.
RunQuery(s, outcome) ==
    /\ exec[s].stage = "run"
    /\ outcome = "none" => HandlerNamed(exec[s].handler).steps[exec[s].pc] = "lookup"
    /\ LET cur == exec[s]
           h == HandlerNamed(cur.handler)
           kind == h.steps[cur.pc]
           ev == Event(kind, outcome)
           on == [cur EXCEPT !.pc = cur.pc + 1, !.events = Append(cur.events, ev),
                             !.stage = IF cur.pc = Len(h.steps) THEN "build" ELSE "run"]
       IN exec' = [exec EXCEPT ![s] =
              CASE outcome = "raise" /\ kind # "tolerated" ->
                     Leave(cur, ev, OnException(h, ExcString))
                [] outcome = "none" /\ kind = "lookup" -> Leave(cur, ev, OnNotFound(h))
                [] OTHER -> on]
    /\ UNCHANGED <<done, http_into_deps>>
    /\ UNCHANGED notExecVars

\* The response is built from the rows and serialized.
BuildResponse(s) ==
    /\ exec[s].stage = "build"
    /\ LET cur == exec[s]
           h == HandlerNamed(cur.handler)
       IN exec' = [exec EXCEPT ![s] =
              IF h.build_error = ""
              THEN Leave(cur, Event("build", "ok"),
                         [raised |-> "none", resp |-> Answer(200, h.name, <<>>)])
              ELSE Leave(cur, Event("build", "raise"), OnException(h, h.build_error))]
    /\ UNCHANGED <<done, http_into_deps>>
    /\ UNCHANGED notExecVars

\* get_db past its yield.
CloseSession(s) ==
    /\ exec[s].stage = "exit"
    /\ exec' = [exec EXCEPT ![s].stage = "respond",
                            ![s].session = exec[s].session \o
                                get_db_exit(exec[s].raised, http_into_deps)]
    /\ UNCHANGED <<done, http_into_deps>>
    /\ UNCHANGED notExecVars

\* The response leaves the service.
Respond(s) ==
    /\ exec[s].stage = "respond"
    /\ done' = [handler |-> exec[s].handler, events |-> exec[s].events,
                raised |-> exec[s].raised, resp |-> exec[s].resp,
                session |-> exec[s].session]
    /\ exec' = [exec EXCEPT ![s] = NoExec]
    /\ UNCHANGED http_into_deps
    /\ UNCHANGED notExecVars

ExecIdle == \A s \in Slots : exec[s].stage = "idle"

ExecSteps ==
    \/ \E s \in Slots, outcome \in AuthOutcomes : ResolveUser(s, outcome)
    \/ \E s \in Slots, outcome \in Outcomes : RunQuery(s, outcome)
    \/ \E s \in Slots : BuildResponse(s)
    \/ \E s \in Slots : CloseSession(s)
    \/ \E s \in Slots : Respond(s)

\* One request at a time, over every handler of the table.
NextExec ==
    \/ \E h \in HandlerTable : ExecIdle /\ StartRequest(h)
    \/ ExecSteps

SpecExec == InitExec /\ [][NextExec]_vars

\* Requests in flight together: their steps interleave freely.
CoreHandlers ==
    { h \in HandlerTable :
        h.name \in {"get_bom_by_part", "get_oqc_record", "get_production_order_detail"} }

NextExecConc ==
    \/ \E h \in CoreHandlers : StartRequest(h)
    \/ ExecSteps

SpecExecConc == InitExec /\ [][NextExecConc]_vars

Ended == done.handler # ""

QueryKinds == {"query", "tolerated", "lookup"}

\* a query of the endpoint function raised during the execution
QueryRaised(events) ==
    \E i \in 1..Len(events) : events[i][1] \in QueryKinds /\ events[i][2] = "raise"

LastEvent(events) == events[Len(events)]

IsOpen(session) == session # <<>> /\ session[Len(session)] # "close"

OpenSessions == { s \in Slots : IsOpen(exec[s].session) }

InFlight == { s \in Slots : exec[s].stage # "idle" }

\* C11: an exception raised by a query of an endpoint function ends the
\* request with HTTP 500 whose detail carries the exception's string; the
\* function does not go on to a result.
C11_QueryExceptionIs500WithDetail ==
    (Ended /\ QueryRaised(done.events)) =>
        /\ done.resp.status = 500
        /\ done.resp.detail # <<>>
        /\ done.resp.detail[Len(done.resp.detail)] = ExcString
        /\ LastEvent(done.events)[2] = "raise"

\* C12: a lookup of a single resource by key that matches no row is answered
\* with the handler's 404; the handler's generic exception clause does not turn
\* it into a 500.
C12_NotFoundIs404 ==
    (Ended /\ LastEvent(done.events) = Event("lookup", "none")) =>
        /\ done.resp.status = 404
        /\ done.resp.by = done.handler
        /\ done.resp.detail = <<HandlerNamed(done.handler).notfound>>

C12_Witness ==
    /\ Ended
    /\ done.handler = "get_oqc_record"
    /\ LastEvent(done.events) = Event("lookup", "none")
    /\ done.resp.status = 404

\* C13: a request opens one get_db session and closes it on every path out
\* (normal return, HTTPException, any other exception), after a rollback when
\* the exception reaches get_db; the sessions open are those of requests in
\* flight, never more than there are requests in flight, and none remains
\* open once the requests have ended.
C13_OneSessionPerRequestAlwaysClosed ==
    /\ \A s \in Slots :
          /\ exec[s].stage = "idle" => exec[s].session = <<>>
          /\ exec[s].stage \in {"auth", "run", "build", "exit"} =>
                exec[s].session = <<"open">>
          /\ exec[s].stage = "respond" =>
                exec[s].session \in {<<"open", "close">>, <<"open", "rollback", "close">>}
    /\ OpenSessions \subseteq InFlight
    /\ Cardinality(OpenSessions) <= Cardinality(InFlight)
    /\ ExecIdle => OpenSessions = {}
    /\ Ended =>
          /\ done.session \in {<<"open", "close">>, <<"open", "rollback", "close">>}
          /\ done.raised = "Exception" => done.session = <<"open", "rollback", "close">>
          /\ done.raised = "none" => done.session = <<"open", "close">>

C13_Witness ==
    /\ Ended
    /\ done.raised = "Exception"
    /\ done.session = <<"open", "rollback", "close">>
    /\ \E s \in Slots : \E t \in Slots :
          /\ s # t
          /\ exec[s].stage = "respond" /\ exec[s].raised = "HTTPException"
          /\ exec[t].stage = "run" /\ IsOpen(exec[t].session)

(***************************************************************************)
(* MobileRateLimitMiddleware: a per-key list of the times of the admitted  *)
(* requests, pruned to the last 60 seconds on every /mobile request.       *)
(* dispatch has no await between reading and appending, so one request's   *)
(* check-and-append is one step.                                           *)
(***************************************************************************)

requests_per_minute == 2

MaxTime == 60

Window == 60

RetryAfter == 60

\* how far time.time() moves between two requests that do not coincide
Advances == {30}

DeviceIds == {"", "devA", "devB"}

ClientHosts == {"10.0.0.1"}

\* a path as its first seven characters and the rest
Path7(head, tail) == [head |-> head, tail |-> tail]

RatePaths ==
    { Path7("/mobile", "/dashboard"), Path7("/mobile", "s"),
      Path7("/api/qu", "ery/mobile/dashboard") }

RateRequests == [device_id : DeviceIds, client : ClientHosts, path : RatePaths]

StartsWithMobile(path) == path.head = "/mobile"

\* Mutant: one counter shared by every client.
ClientKey_Shared(req) == "unknown"

\* request.headers.get('x-device-id', client_ip)
ClientKey(req) ==
    IF req.device_id # "" THEN req.device_id
    ELSE IF req.client # "" THEN req.client ELSE "unknown"

Get(dict, k) == IF k \in DOMAIN dict THEN dict[k] ELSE <<>>

Put(dict, k, v) == [j \in DOMAIN dict \cup {k} |-> IF j = k THEN v ELSE dict[j]]

\* the times still inside the window at time t
Recent(times, t) == SelectSeq(times, LAMBDA x : t - x < Window)

\* Mutant: the limit tested after one request too many.
Exceeded_OffByOne(times) == Len(times) > requests_per_minute

Exceeded(times) == Len(times) >= requests_per_minute

InitRate ==
    /\ env = "development"
    /\ db = [users |-> Users, bom |-> Parts, rows |-> {"row"}]
    /\ db0 = db
    /\ inflight = [s \in Slots |-> Idle]
    /\ last = NoLast
    /\ PureIdle
    /\ ExecIdleState
    /\ RateIdle
    /\ DevIdle

notRateVars == <<pipeVars, pureVars, execVars, devVars>>

\* Mutant: a rejected request is recorded like an admitted one.
RateLimitDispatch_RecordsRejected(req) ==
    LET key == ClientKey(req)
        cleaned == Recent(Get(request_counts, key), now)
        seen == [seen |-> TRUE, device_id |-> req.device_id, key |-> key,
                 limited |-> StartsWithMobile(req.path), at |-> now,
                 status |-> 200, retry_after |-> 0, forwarded |-> TRUE]
    IN /\ IF ~StartsWithMobile(req.path)
          THEN /\ rl' = seen
               /\ UNCHANGED <<request_counts, forwarded>>
          ELSE IF Exceeded(cleaned)
          THEN /\ request_counts' = Put(request_counts, key, Append(cleaned, now))
               /\ rl' = [seen EXCEPT !.status = 429, !.retry_after = RetryAfter,
                                     !.forwarded = FALSE]
               /\ UNCHANGED forwarded
          ELSE /\ request_counts' = Put(request_counts, key, Append(cleaned, now))
               /\ forwarded' = Put(forwarded, key, Append(Get(forwarded, key), now))
               /\ rl' = seen
       /\ UNCHANGED now
       /\ UNCHANGED notRateVars

\* Mutant: requests outside /mobile are counted too.
RateLimitDispatch_CountsEveryPath(req) ==
    LET key == ClientKey(req)
        cleaned == Recent(Get(request_counts, key), now)
        seen == [seen |-> TRUE, device_id |-> req.device_id, key |-> key,
                 limited |-> StartsWithMobile(req.path), at |-> now,
                 status |-> 200, retry_after |-> 0, forwarded |-> TRUE]
    IN /\ IF ~StartsWithMobile(req.path)
          THEN /\ rl' = seen
               /\ request_counts' = Put(request_counts, key, Append(cleaned, now))
               /\ UNCHANGED forwarded
          ELSE IF Exceeded(cleaned)
          THEN /\ request_counts' = Put(request_counts, key, cleaned)
               /\ rl' = [seen EXCEPT !.status = 429, !.retry_after = RetryAfter,
                                     !.forwarded = FALSE]
               /\ UNCHANGED forwarded
          ELSE /\ request_counts' = Put(request_counts, key, Append(cleaned, now))
               /\ forwarded' = Put(forwarded, key, Append(Get(forwarded, key), now))
               /\ rl' = seen
       /\ UNCHANGED now
       /\ UNCHANGED notRateVars

\* MobileRateLimitMiddleware.dispatch
RateLimitDispatch(req) ==
    LET key == ClientKey(req)
        cleaned == Recent(Get(request_counts, key), now)
        seen == [seen |-> TRUE, device_id |-> req.device_id, key |-> key,
                 limited |-> StartsWithMobile(req.path), at |-> now,
                 status |-> 200, retry_after |-> 0, forwarded |-> TRUE]
    IN /\ IF ~StartsWithMobile(req.path)
          THEN /\ rl' = seen
               /\ UNCHANGED <<request_counts, forwarded>>
          ELSE IF Exceeded(cleaned)
          THEN /\ request_counts' = Put(request_counts, key, cleaned)
               /\ rl' = [seen EXCEPT !.status = 429, !.retry_after = RetryAfter,
                                     !.forwarded = FALSE]
               /\ UNCHANGED forwarded
          ELSE /\ request_counts' = Put(request_counts, key, Append(cleaned, now))
               /\ forwarded' = Put(forwarded, key, Append(Get(forwarded, key), now))
               /\ rl' = seen
       /\ UNCHANGED now
       /\ UNCHANGED notRateVars

AdvanceClock(d) ==
    /\ now + d <= MaxTime
    /\ now' = now + d
    /\ UNCHANGED <<request_counts, forwarded, rl>>
    /\ UNCHANGED notRateVars

NextRate ==
    \/ \E req \in RateRequests : RateLimitDispatch(req)
    \/ \E d \in Advances : AdvanceClock(d)

SpecRate == InitRate /\ [][NextRate]_vars

\* the requests of key k forwarded in the window [t, t + Window)
ForwardedIn(k, t) ==
    { i \in 1..Len(forwarded[k]) : t <= forwarded[k][i] /\ forwarded[k][i] < t + Window }

\* C14: per client key (x-device-id, else the client IP), at most
\* requests_per_minute of the /mobile requests are forwarded within any 60
\* second window; a request beyond that is answered 429 with retry_after 60
\* and is not forwarded.
C14_RateBoundedPerKey ==
    /\ \A k \in DOMAIN forwarded :
          \A i \in 1..Len(forwarded[k]) :
              Cardinality(ForwardedIn(k, forwarded[k][i])) <= requests_per_minute
    /\ (rl.seen /\ rl.limited) =>
          /\ rl.key = (IF rl.device_id # "" THEN rl.device_id ELSE "10.0.0.1")
          /\ (rl.status = 429) <=> ~rl.forwarded
          /\ rl.status = 429 =>
                /\ rl.retry_after = 60
                /\ Cardinality(ForwardedIn(rl.key, rl.at - Window + 1)) = requests_per_minute
          /\ rl.forwarded => forwarded[rl.key][Len(forwarded[rl.key])] = rl.at

C14_Witness ==
    /\ rl.seen /\ rl.status = 429 /\ ~rl.forwarded
    /\ Len(forwarded[rl.key]) > requests_per_minute

\* C15: a request carrying one device identifier reads and writes only that
\* identifier's counter: the counters of all other keys are left as they were,
\* and its admission is decided by its own counter alone.
C15_DevicesIndependent ==
    [][(rl'.seen /\ rl'.device_id # "" /\ rl'.limited /\
        (rl' # rl \/ request_counts' # request_counts)) =>
          LET k == rl'.device_id
          IN /\ DOMAIN request_counts' = DOMAIN request_counts \cup {k}
             /\ \A j \in DOMAIN request_counts \ {k} :
                   request_counts'[j] = request_counts[j]
             /\ \A j \in DOMAIN forwarded \ {k} :
                   j \in DOMAIN forwarded' /\ forwarded'[j] = forwarded[j]
             /\ (rl'.status = 429) <=>
                   (Len(Recent(Get(request_counts, k), now)) >= requests_per_minute)]_vars

C15_Witness ==
    /\ rl.seen /\ rl.device_id = "devA" /\ rl.status = 429
    /\ "devB" \in DOMAIN request_counts
    /\ Len(request_counts["devB"]) = 1
    /\ Len(request_counts["devA"]) = requests_per_minute

(***************************************************************************)
(* Device classification and the optimization headers.  A user-agent is a  *)
(* sequence of words; lower() and the substring test `in` are modelled on  *)
(* the words.  The timestamp of get_device_info's result is left out.      *)
(***************************************************************************)

Lower(word) ==
    CASE word = "Mozilla" -> "mozilla"
      [] word = "Windows" -> "windows"
      [] word = "Android" -> "android"
      [] word = "ANDROID" -> "android"
      [] word = "iPhone" -> "iphone"
      [] word = "iPad" -> "ipad"
      [] word = "Mobile" -> "mobile"
      [] word = "MobileSafari" -> "mobilesafari"
      [] word = "Tablet" -> "tablet"
      [] OTHER -> word

LowerAll(words) == [i \in 1..Len(words) |-> Lower(words[i])]

\* needle in text, for text a sequence of lower-case words
Contains(needle, text) ==
    \E i \in 1..Len(text) :
        \/ text[i] = needle
        \/ <<needle, text[i]>> \in {<<"mobile", "mobilesafari">>}

UserAgents ==
    { <<>>,
      <<"Mozilla", "Windows">>,
      <<"Mozilla", "Android", "Mobile">>,
      <<"Mozilla", "iPhone">>,
      <<"Mozilla", "iPad">>,
      <<"Mozilla", "Android", "Tablet">>,
      <<"Mozilla", "Tablet">>,
      <<"ANDROID">>,
      <<"MobileSafari">>,
      <<"Mozilla", "geolocation">> }

AppHeaderNames == {"x-app-version", "x-device-id", "x-platform"}

AppHeaders == UNION { [names -> {"v"}] : names \in SUBSET AppHeaderNames }

DeviceRequests == [user_agent : UserAgents, headers : AppHeaders]

\* Mutant: the tablet test made before the mobile test.
get_device_info_TabletFirst(request) ==
    LET user_agent == LowerAll(request.user_agent)
        device_type ==
            IF Contains("tablet", user_agent) THEN "tablet"
            ELSE IF \E mobile \in {"android", "iphone", "ipad", "mobile"} :
                       Contains(mobile, user_agent)
            THEN "mobile"
            ELSE "desktop"
    IN [type |-> device_type,
        user_agent |-> user_agent,
        headers |-> [n \in AppHeaderNames |->
                        IF n \in DOMAIN request.headers THEN request.headers[n]
                        ELSE "unknown"],
        capabilities |->
            [gps |-> Contains("geolocation", user_agent) \/ device_type = "mobile",
             camera |-> device_type \in {"mobile", "tablet"},
             biometric |-> device_type = "mobile",
             offline |-> TRUE,
             push_notifications |-> device_type \in {"mobile", "tablet"}],
        screen |-> [density |-> IF device_type = "mobile" THEN "high" ELSE "normal",
                    size |-> IF device_type = "mobile" THEN "small" ELSE "large"]]

get_device_info(request) ==
    LET user_agent == LowerAll(request.user_agent)
        device_type ==
            IF \E mobile \in {"android", "iphone", "ipad", "mobile"} :
                   Contains(mobile, user_agent)
            THEN "mobile"
            ELSE IF Contains("tablet", user_agent) THEN "tablet"
            ELSE "desktop"
    IN [type |-> device_type,
        user_agent |-> user_agent,
        headers |-> [n \in AppHeaderNames |->
                        IF n \in DOMAIN request.headers THEN request.headers[n]
                        ELSE "unknown"],
        capabilities |->
            [gps |-> Contains("geolocation", user_agent) \/ device_type = "mobile",
             camera |-> device_type \in {"mobile", "tablet"},
             biometric |-> device_type = "mobile",
             offline |-> TRUE,
             push_notifications |-> device_type \in {"mobile", "tablet"}],
        screen |-> [density |-> IF device_type = "mobile" THEN "high" ELSE "normal",
                    size |-> IF device_type = "mobile" THEN "small" ELSE "large"]]

\* The middleware of app/main.py in the order the module registers it; each
\* registration wraps what was registered before, so the last one is outermost.
Registered(e) ==
    <<"mobile_optimization_middleware", "CORSMiddleware", "block_write_operations">>
    \o (IF e = "production" THEN <<"TrustedHostMiddleware">> ELSE <<>>)

MiddlewareStack(e) == Reverse(Registered(e)) \o <<"router">>

Depth(stack, layer) == CHOOSE i \in 1..Len(stack) : stack[i] = layer

\* The responses of the service by the layer that produces them: the host
\* check, the CQRS 405, the 500 of block_write_operations' except clause, the
\* CORS preflight answers, and what the router returns (an endpoint's result,
\* or the response made from an HTTPException or a missing route).
Produced(by, status) == [by |-> by, status |-> status]

ProducedResponses ==
    { Produced("TrustedHostMiddleware", 400),
      Produced("block_write_operations", 405),
      Produced("block_write_operations", 500),
      Produced("CORSMiddleware", 200),
      Produced("CORSMiddleware", 400),
      Produced("router", 200),
      Produced("router", 401),
      Produced("router", 404),
      Produced("router", 500) }

OptimizationHeaders(device_type) ==
    { <<"X-Mobile-Optimized", "true">>,
      <<"X-Device-Type", device_type>>,
      <<"Cache-Control", "max-age=300">> }

\* mobile_optimization_middleware sets its headers on the response that
\* call_next returns to it: a response made by a layer outside it never
\* passes through it.
mobile_optimization_middleware(stack, produced, request) ==
    IF /\ Depth(stack, produced.by) > Depth(stack, "mobile_optimization_middleware")
       /\ get_device_info(request).type \in {"mobile", "tablet"}
    THEN OptimizationHeaders(get_device_info(request).type)
    ELSE {}

InitDevice ==
    /\ env \in Environments
    /\ db = [users |-> Users, bom |-> Parts, rows |-> {"row"}]
    /\ db0 = db
    /\ inflight = [s \in Slots |-> Idle]
    /\ last = NoLast
    /\ PureIdle
    /\ ExecIdleState
    /\ RateIdle
    /\ DevIdle

notDevVars == <<pipeVars, pureVars, execVars, rateVars>>

\* One request through the stack, answered by the layer `produced.by`.
ServeRequest(request, produced) ==
    /\ \E i \in 1..Len(MiddlewareStack(env)) : MiddlewareStack(env)[i] = produced.by
    /\ dev' = [seen |-> TRUE, request |-> request, info |-> get_device_info(request),
               produced |-> produced,
               headers |-> mobile_optimization_middleware(MiddlewareStack(env),
                                                          produced, request)]
    /\ UNCHANGED call
    /\ UNCHANGED notDevVars

NextDevice ==
    \E request \in DeviceRequests, produced \in ProducedResponses :
        ServeRequest(request, produced)

SpecDevice == InitDevice /\ [][NextDevice]_vars

HasWord(words, w) == \E i \in 1..Len(words) : Lower(words[i]) = w

\* C16: every request gets exactly one of the labels mobile, tablet, desktop,
\* determined by its own user-agent alone: mobile if it contains android,
\* iphone, ipad or mobile, otherwise tablet if it contains tablet, otherwise
\* desktop.
C16_DeviceLabelFromUserAgent ==
    dev.seen =>
        LET ua == dev.request.user_agent
            mobile == \/ HasWord(ua, "android") \/ HasWord(ua, "iphone")
                      \/ HasWord(ua, "ipad") \/ HasWord(ua, "mobile")
                      \/ HasWord(ua, "mobilesafari")
        IN /\ dev.info.type \in {"mobile", "tablet", "desktop"}
           /\ dev.info.type = "mobile" <=> mobile
           /\ dev.info.type = "tablet" <=> (~mobile /\ HasWord(ua, "tablet"))
           /\ dev.info.type = "desktop" <=> (~mobile /\ ~HasWord(ua, "tablet"))

C16_Witness ==
    /\ dev.seen
    /\ dev.request.user_agent = <<"Mozilla", "Android", "Tablet">>
    /\ dev.info.type = "mobile"

\* C17: every response to a request classified mobile or tablet carries
\* X-Mobile-Optimized: true, X-Device-Type and Cache-Control: max-age=300,
\* whichever layer produced it (endpoint result, CQRS 405, 500), and no
\* response to a request classified desktop carries them.
C17_HintsOnEveryMobileResponse ==
    dev.seen =>
        IF dev.info.type \in {"mobile", "tablet"}
        THEN OptimizationHeaders(dev.info.type) \subseteq dev.headers
        ELSE dev.headers = {}

(***************************************************************************)
(* Filter-and-fetch: optional query parameters become filters of the       *)
(* query.  `if param:` is Python truth: None, 0, "" and False all skip the *)
(* filter; `if param is not None:` skips it for None only.                 *)
(***************************************************************************)

NoneStr == [null |-> TRUE, v |-> ""]

TruthyStr(x) == ~x.null /\ x.v # ""

NoneBool == [null |-> TRUE, v |-> FALSE]

TruthyBool(x) == ~x.null /\ x.v

Schedule(id, machine_id, status, scheduled_start) ==
    [id |-> id, machine_id |-> machine_id, status |-> status,
     scheduled_start |-> scheduled_start]

ScheduleTables ==
    { {},
      { Schedule(1, 1, "started", 1), Schedule(2, 1, "scheduled", 2),
        Schedule(3, 2, "started", 2) } }

ScheduleParams ==
    [machine_id : Nullable({0, 1, 2}),
     status : {NoneStr, Some(""), Some("started")},
     date_from : Nullable({2}),
     date_to : Nullable({1})]

\* the rows get_production_schedules selects (a date is never false)
get_production_schedules(params, table) ==
    { row \in table :
        /\ Truthy(params.machine_id) => row.machine_id = params.machine_id.v
        /\ TruthyStr(params.status) => row.status = params.status.v
        /\ ~params.date_from.null => row.scheduled_start >= params.date_from.v
        /\ ~params.date_to.null => row.scheduled_start <= params.date_to.v }

Balance(id, location_id, available_quantity) ==
    [id |-> id, location_id |-> location_id, available_quantity |-> available_quantity]

BalanceTables ==
    { {}, { Balance(1, 1, 0), Balance(2, 1, 5), Balance(3, 2, -1) } }

BalanceParams ==
    [location_id : Nullable({0, 1}),
     min_quantity : Nullable({0, 5}),
     zero_stock : {NoneBool, Some(FALSE), Some(TRUE)}]

\* the rows get_inventory_balances (get_warehouse) selects before pagination
get_inventory_balances(params, table) ==
    { row \in table :
        /\ Truthy(params.location_id) => row.location_id = params.location_id.v
        /\ ~params.min_quantity.null => row.available_quantity >= params.min_quantity.v
        /\ TruthyBool(params.zero_stock) => row.available_quantity = 0 }

InitCall ==
    /\ env = "development"
    /\ db = [users |-> Users, bom |-> Parts, rows |-> {"row"}]
    /\ db0 = db
    /\ inflight = [s \in Slots |-> Idle]
    /\ last = NoLast
    /\ PureIdle
    /\ ExecIdleState
    /\ RateIdle
    /\ DevIdle

notCallVars == <<pipeVars, pureVars, execVars, rateVars, dev>>

GetProductionSchedules(params, table) ==
    /\ call' = [called |-> TRUE, op |-> "get_production_schedules", params |-> params,
                table |-> table, selected |-> get_production_schedules(params, table)]
    /\ UNCHANGED notCallVars

GetInventoryBalances(params, table) ==
    /\ call' = [called |-> TRUE, op |-> "get_inventory_balances", params |-> params,
                table |-> table, selected |-> get_inventory_balances(params, table)]
    /\ UNCHANGED notCallVars

NextFilter ==
    \/ \E params \in ScheduleParams, table \in ScheduleTables :
           GetProductionSchedules(params, table)
    \/ \E params \in BalanceParams, table \in BalanceTables :
           GetInventoryBalances(params, table)

\* C18: the rows selected before pagination are exactly those satisfying the
\* conjunction of the filter parameters the caller supplied; a supplied
\* parameter constrains the result whatever its value (0 and "" included), an
\* omitted one adds no constraint.
C18_SuppliedFiltersConstrain ==
    /\ (call.called /\ call.op = "get_production_schedules") =>
          call.selected =
              { row \in call.table :
                  /\ ~call.params.machine_id.null =>
                        row.machine_id = call.params.machine_id.v
                  /\ ~call.params.status.null => row.status = call.params.status.v
                  /\ ~call.params.date_from.null =>
                        row.scheduled_start >= call.params.date_from.v
                  /\ ~call.params.date_to.null =>
                        row.scheduled_start <= call.params.date_to.v }
    /\ (call.called /\ call.op = "get_inventory_balances") =>
          call.selected =
              { row \in call.table :
                  /\ ~call.params.location_id.null =>
                        row.location_id = call.params.location_id.v
                  /\ ~call.params.min_quantity.null =>
                        row.available_quantity >= call.params.min_quantity.v
                  /\ TruthyBool(call.params.zero_stock) => row.available_quantity = 0 }

(***************************************************************************)
(* Paginated list envelopes: the filtered query is counted, then ordered,  *)
(* offset and limited; both statements run in one transaction.  A limit    *)
(* above the declared maximum is rejected by validation; a negative limit  *)
(* or offset passes validation and is rejected by the database.            *)
(***************************************************************************)

EnvelopeOps == {"get_inventory_movements", "get_oqc_records"}

EnvelopeTables == { t \in Tables : Len(t) <= 3 }

EnvelopeLimits == {-1, 0, 1, 2, LimitBound + 1}

EnvelopeOffsets == {-1, 0, 1, 4}

EnvelopeParams ==
    [date_from : Nullable({1}), limit : EnvelopeLimits, offset : EnvelopeOffsets]

\* query.filter(column >= date_from), added only when a date was given
FilterFrom(date_from, table) ==
    SelectSeq(table, LAMBDA row : date_from.null \/ row.key >= date_from.v)

EnvelopeFields(op) ==
    IF op = "get_inventory_movements"
    THEN {"success", "count", "total_count", "offset", "limit", "data"}
    ELSE {"data", "total", "limit", "offset", "status"}

\* the 200 body of a paginated list
Envelope(op, total, fetched, limit, offset) ==
    [fields |-> EnvelopeFields(op), count |-> Len(fetched), total |-> total,
     limit |-> limit, offset |-> offset, data |-> fetched]

list_envelope_TotalOfPage(op, params, table) ==
    LET query == FilterFrom(params.date_from, table)
        fetched == IF params.limit < 0 \/ params.offset < 0 THEN <<>>
                ELSE OffsetLimit(OrderByKeyDesc(query, MaxKey), params.offset, params.limit)
    IN  IF params.limit > LimitBound
        THEN [status |-> 422, body |-> [detail |-> "validation"]]
        ELSE IF params.limit < 0 \/ params.offset < 0
        THEN [status |-> 500, body |-> [detail |-> ExcString]]
        ELSE IF op = "get_oqc_records" /\ fetched # <<>>
        THEN [status |-> 500, body |-> [detail |-> "AttributeError"]]
        ELSE [status |-> 200,
              body |-> Envelope(op, Len(fetched), fetched, params.limit, params.offset)]

\* get_inventory_movements / get_oqc_records: count, fetched, envelope
list_envelope(op, params, table) ==
    LET query == FilterFrom(params.date_from, table)
        total == Len(query)
        fetched == IF params.limit < 0 \/ params.offset < 0 THEN <<>>
                ELSE OffsetLimit(OrderByKeyDesc(query, MaxKey), params.offset, params.limit)
    IN  IF params.limit > LimitBound
        THEN [status |-> 422, body |-> [detail |-> "validation"]]
        ELSE IF params.limit < 0 \/ params.offset < 0
        THEN [status |-> 500, body |-> [detail |-> ExcString]]
        ELSE IF op = "get_oqc_records" /\ fetched # <<>>
        THEN [status |-> 500, body |-> [detail |-> "AttributeError"]]
        ELSE [status |-> 200,
              body |-> Envelope(op, total, fetched, params.limit, params.offset)]

ListEnvelope(op, params, table) ==
    /\ call' = [called |-> TRUE, op |-> op, params |-> params, table |-> table,
                status |-> list_envelope(op, params, table).status,
                body |-> list_envelope(op, params, table).body]
    /\ UNCHANGED notCallVars

(***************************************************************************)
(* Mobile quick check: the 400 is raised inside the handler's own try      *)
(* block, whose `except Exception` catches it and raises a 500 carrying    *)
(* str() of the caught exception; that string is empty or                  *)
(* "<status>: <detail>" depending on the installed framework version.      *)
(***************************************************************************)

Barcodes == {NoneStr, Some(""), Some("123")}

ProductIds == {NoneStr, Some(""), Some("P1")}

QuickCheckDetail == "Either barcode or product_id is required"

StrOfHTTPException == {"", "400: Either barcode or product_id is required"}

\* Python `a or b` on optional strings
OrElse(a, b) == IF TruthyStr(a) THEN a.v ELSE b

mobile_inventory_quick_check(barcode, product_id, str_e) ==
    IF ~TruthyStr(barcode) /\ ~TruthyStr(product_id)
    THEN [status |-> 500, body |-> [detail |-> str_e]]
    ELSE [status |-> 200,
          body |-> [product_id |-> OrElse(product_id, "PRD-" \o barcode.v),
                    barcode |-> OrElse(barcode, "BC-" \o product_id.v),
                    current_stock |-> 150,
                    status |-> "available",
                    device_info |-> [is_mobile |-> FALSE, device_id |-> "unknown"]]]

MobileInventoryQuickCheck(barcode, product_id, str_e) ==
    /\ call' = [called |-> TRUE, op |-> "mobile_inventory_quick_check",
                params |-> [barcode |-> barcode, product_id |-> product_id],
                table |-> <<>>,
                status |-> mobile_inventory_quick_check(barcode, product_id, str_e).status,
                body |-> mobile_inventory_quick_check(barcode, product_id, str_e).body]
    /\ UNCHANGED notCallVars

(***************************************************************************)
(* QC dashboard period.  Dates are day numbers.  The defaults replace both *)
(* bounds unless both were given; the first count runs with the resolved   *)
(* bounds, the next statement reads OQC.overall_result, which the model    *)
(* class does not have.                                                    *)
(***************************************************************************)

DefaultDays == 30

Todays == {40, 41}

PeriodDates == Nullable({5, 35})

\* lines 407-410: `if not start_date or not end_date:` (a date is never false)
resolve_period(start_date, end_date, today) ==
    IF start_date.null \/ end_date.null
    THEN [start_date |-> today - DefaultDays, end_date |-> today]
    ELSE [start_date |-> start_date.v, end_date |-> end_date.v]

GetQcDashboardPeriod(start_date, end_date, today) ==
    /\ call' = [called |-> TRUE, op |-> "get_qc_dashboard_summary",
                params |-> [start_date |-> start_date, end_date |-> end_date],
                today |-> today,
                queried |-> resolve_period(start_date, end_date, today),
                status |-> 500,
                body |-> [detail |-> "AttributeError"]]
    /\ UNCHANGED notCallVars

(***************************************************************************)
(* request.state as the endpoint sees it: each middleware of the stack     *)
(* that the request passes sets its own attributes.  The function          *)
(* mobile_optimization_middleware sets device_info; the class              *)
(* MobileOptimizationMiddleware sets is_mobile, device_id and app_version, *)
(* and main.py never adds it to the application.                           *)
(***************************************************************************)

HeaderOr(request, name, default) ==
    IF name \in DOMAIN request.headers THEN request.headers[name] ELSE default

\* MobileOptimizationMiddleware.dispatch, lines 21-30
MobileOptimizationMiddleware_state(request) ==
    LET user_agent == LowerAll(request.user_agent)
        mobile_header == HeaderOr(request, "x-mobile-app", "") = "true"
        is_mobile == mobile_header
                        \/ \E device \in {"android", "iphone", "ipad", "ipod",
                                          "blackberry", "windows phone"} :
                               Contains(device, user_agent)
    IN [is_mobile |-> Some(is_mobile),
        device_id |-> Some(HeaderOr(request, "x-device-id", "unknown")),
        app_version |-> Some(HeaderOr(request, "x-app-version", "1.0.0"))]

\* the attributes of request.state when the endpoint runs; an attribute no
\* layer has set is absent
request_state(stack, request) ==
    IF \E i \in 1..Len(stack) : stack[i] = "MobileOptimizationMiddleware"
    THEN MobileOptimizationMiddleware_state(request)
    ELSE [is_mobile |-> NoneBool, device_id |-> NoneStr, app_version |-> NoneStr]

\* getattr(request.state, name, default)
Getattr(state, name, default) == IF state[name].null THEN default ELSE state[name].v

mobile_health_check(stack, request) ==
    LET state == request_state(stack, request)
    IN [status |-> 200,
        body |-> [status |-> "healthy",
                  device |-> IF Getattr(state, "is_mobile", FALSE)
                             THEN "mobile" ELSE "desktop",
                  device_id |-> Getattr(state, "device_id", "unknown"),
                  app_version |-> Getattr(state, "app_version", "1.0.0")]]

MobileHealthCheck(request) ==
    /\ call' = [called |-> TRUE, op |-> "mobile_health_check", request |-> request,
                status |-> mobile_health_check(MiddlewareStack(env), request).status,
                body |-> mobile_health_check(MiddlewareStack(env), request).body]
    /\ UNCHANGED notCallVars

NextCall ==
    \/ NextFilter
    \/ \E op \in EnvelopeOps, params \in EnvelopeParams, table \in EnvelopeTables :
           ListEnvelope(op, params, table)
    \/ \E barcode \in Barcodes, product_id \in ProductIds, str_e \in StrOfHTTPException :
           MobileInventoryQuickCheck(barcode, product_id, str_e)
    \/ \E start_date \in PeriodDates, end_date \in PeriodDates, today \in Todays :
           GetQcDashboardPeriod(start_date, end_date, today)
    \/ \E request \in DeviceRequests : MobileHealthCheck(request)

SpecCall == InitCall /\ [][NextCall]_vars

\* C19: in every envelope a paginated list returns, count is the number of
\* rows in data and at most limit; total is the number of rows matching the
\* filters, whatever offset and limit are, so data never has more rows than
\* total; limit and offset echo the request.
C19_EnvelopeCountsAndEcho ==
    (call.called /\ call.op \in EnvelopeOps /\ call.status = 200) =>
        /\ call.body.fields = EnvelopeFields(call.op)
        /\ "count" \in call.body.fields => call.body.count = Len(call.body.data)
        /\ Len(call.body.data) <= call.params.limit
        /\ call.body.total =
              Cardinality({ i \in DOMAIN call.table :
                              call.params.date_from.null
                                  \/ call.table[i].key >= call.params.date_from.v })
        /\ Len(call.body.data) <= call.body.total
        /\ call.body.limit = call.params.limit
        /\ call.body.offset = call.params.offset

C19_Witness ==
    /\ call.called
    /\ call.op = "get_inventory_movements"
    /\ call.status = 200
    /\ ~call.params.date_from.null
    /\ call.params.offset = 1
    /\ call.params.limit = 2
    /\ Len(call.body.data) = 1
    /\ call.body.total = 2
    /\ Len(call.table) = 3

\* C20: quick-check without barcode and product_id is answered 400 with
\* detail 'Either barcode or product_id is required'; with at least one of
\* them supplied it is answered 200 with the inventory record.
C20_QuickCheckRequiresIdentifier ==
    (call.called /\ call.op = "mobile_inventory_quick_check") =>
        IF call.params.barcode.null /\ call.params.product_id.null
        THEN call.status = 400 /\ call.body.detail = QuickCheckDetail
        ELSE call.status = 200 /\ call.body.current_stock = 150

\* C21: the QC dashboard uses the default period (the 30 days ending today)
\* only when no date was given; a supplied start_date or end_date, alone or
\* with the other, bounds the queried period and is reported in data.period.
C21_SuppliedDatesBoundThePeriod ==
    (call.called /\ call.op = "get_qc_dashboard_summary") =>
        /\ call.queried.end_date =
              (IF call.params.end_date.null THEN call.today
               ELSE call.params.end_date.v)
        /\ call.queried.start_date =
              (IF ~call.params.start_date.null THEN call.params.start_date.v
               ELSE call.queried.end_date - DefaultDays)

\* C22: no request is served database rows without authentication: in every
\* finished execution that ran a query of an endpoint function,
\* get_current_user came first and resolved a user (a request without a
\* valid bearer token is rejected with 401 before any query).
C22_QueriesOnlyAfterAuthentication ==
    (Ended /\ \E i \in 1..Len(done.events) : done.events[i][1] \in QueryKinds) =>
        done.events[1] = Event("get_current_user", "user")

\* C23: GET /mobile/health on the application of app/main.py reports device
\* 'mobile' exactly when the installed middleware classifies the request as
\* mobile and 'desktop' otherwise, and reports the device_id and app_version
\* of the request's x-device-id and x-app-version headers.
C23_MobileHealthReportsTheDevice ==
    (call.called /\ call.op = "mobile_health_check") =>
        /\ call.status = 200
        /\ call.body.device =
              (IF get_device_info(call.request).type = "mobile"
               THEN "mobile" ELSE "desktop")
        /\ call.body.device_id = HeaderOr(call.request, "x-device-id", "unknown")
        /\ call.body.app_version = HeaderOr(call.request, "x-app-version", "1.0.0")

(***************************************************************************)
(* Mobile path aliases.  Routes are matched in registration order: the     *)
(* routes main.py declares on the application, then the API router under   *)
(* "" and under "/api/query", then the two alias routes.  The {path}       *)
(* parameter is the percent-decoded path; the alias writes it into the     *)
(* target as it is and RedirectResponse quotes the target, leaving "?"     *)
(* alone.                                                                   *)
(***************************************************************************)

MaxHops == 3

\* paths of api/v1/endpoints/mobile.py, mounted under /mobile
RouterMobilePaths ==
    {"health", "info", "dashboard", "production/orders", "inventory/quick-check"}

\* /mobile/... routes declared on the application itself
AppMobilePaths ==
    {"app-config", "dashboard/summary", "production/orders/active",
     "inventory/low-stock", "quality/inspections/pending", "warehouse/tasks"}

AliasPrefixes == {"/api/query/mobile", "/api/mobile", "/mobile"}

\* raw paths as a client sends them
RawPaths ==
    {"health", "dashboard", "inventory/quick-check", "app-config", "missing",
     "a%3Fb", "x%20y"}

Queries == {"", "barcode=1", "product_id=P1"}

Url(prefix, path, query) == [prefix |-> prefix, path |-> path, query |-> query]

Urls == { Url(prefix, path, query) : prefix \in AliasPrefixes, path \in RawPaths, query \in Queries }

\* the server's percent-decoding of the request path
Unquote(path) ==
    CASE path = "a%3Fb" -> "a?b"
      [] path = "x%20y" -> "x y"
      [] OTHER -> path

\* RedirectResponse: quote(url, safe=":/%#?=@[]!$&'()*+,;")
Quote(text) ==
    CASE text = "x y" -> "x%20y"
      [] OTHER -> text

\* the URL a client reads from a Location of the form
\* <base><prefix>/<text>[?<query>]: the query starts at the first "?"
ParseLocation(prefix, text, query) ==
    IF text = "a?b"
    THEN Url(prefix, "a", IF query = "" THEN "b" ELSE "b?" \o query)
    ELSE Url(prefix, text, query)

\* mobile_alias / mobile_query_alias: 307 to the same path under `to`
Alias(to, url) ==
    [status |-> 307, by |-> "alias",
     location |-> ParseLocation(to, Quote(Unquote(url.path)), url.query)]

NoLocation307 == Url("", "", "")

\* the answer to GET url, by the first route that matches
RouteGet(url) ==
    CASE url.prefix = "/mobile" ->
            IF Unquote(url.path) \in RouterMobilePaths \cup AppMobilePaths
            THEN [status |-> 200, by |-> "endpoint", location |-> NoLocation307]
            ELSE [status |-> 404, by |-> "router", location |-> NoLocation307]
      [] url.prefix = "/api/query/mobile" ->
            IF Unquote(url.path) \in RouterMobilePaths
            THEN [status |-> 200, by |-> "endpoint", location |-> NoLocation307]
            ELSE Alias("/api/mobile", url)
      [] OTHER -> Alias("/mobile", url)

InitRedirect == InitCall

\* a client sends GET url
ClientGet(url) ==
    /\ call' = [called |-> TRUE, op |-> "get", start |-> url, url |-> url, hops |-> 0,
                status |-> RouteGet(url).status, by |-> RouteGet(url).by,
                location |-> RouteGet(url).location]
    /\ UNCHANGED notCallVars

\* the client follows the redirect it was given
FollowRedirect ==
    /\ call.called
    /\ call.op = "get"
    /\ call.status = 307
    /\ call.hops < MaxHops
    /\ call' = [call EXCEPT !.url = call.location, !.hops = call.hops + 1,
                            !.status = RouteGet(call.location).status,
                            !.by = RouteGet(call.location).by,
                            !.location = RouteGet(call.location).location]
    /\ UNCHANGED notCallVars

NextRedirect ==
    \/ \E url \in Urls : ClientGet(url)
    \/ FollowRedirect

SpecRedirect == InitRedirect /\ [][NextRedirect]_vars

\* C24: GET /api/query/mobile/{path} is answered 307 to /api/mobile/{path}
\* and GET /api/mobile/{path} 307 to /mobile/{path}, for every path, with
\* path and query string unchanged; following the redirects from an alias
\* ends at a /mobile/... URL after at most two redirects.
C24_AliasesRedirectPreservingPathAndQuery ==
    (call.called /\ call.op = "get") =>
        /\ call.url.prefix = "/api/query/mobile" =>
              /\ call.status = 307
              /\ call.location = Url("/api/mobile", call.url.path, call.url.query)
        /\ call.url.prefix = "/api/mobile" =>
              /\ call.status = 307
              /\ call.location = Url("/mobile", call.url.path, call.url.query)
        /\ call.hops <= 2
        /\ call.status # 307 => call.url.prefix = "/mobile"

(***************************************************************************)
(* Health checks.  detailed_health probes the database inside try/except:  *)
(* the session factory is missing (the import fallback defines no          *)
(* SessionLocal, so the name lookup raises), or the factory raises, or the *)
(* probe query raises, or all succeed.  db.close() follows the query in    *)
(* the try body, so it runs only when the query returned.                  *)
(***************************************************************************)

MaxOpen == 3

HealthRoutes == {"/api/health", "/api/query/health", "/health"}

HealthOps == {"detailed_health", "check_database_health"}

DbStates == {"up", "unimported", "factory_raises", "execute_raises"}

ProbeErrors == {"OperationalError", "TimeoutError"}

\* the session events of one probe: SessionLocal(), execute, close
probe(db_state) ==
    CASE db_state = "up" -> <<"open", "execute", "close">>
      [] db_state = "execute_raises" -> <<"open", "execute">>
      [] OTHER -> <<>>

\* Mutant: a probe outcome other than an exception counts as healthy.
detailed_health_HealthyUnlessError(db_state, e) ==
    LET db_status ==
            CASE db_state = "up" -> "connected"
              [] db_state = "unimported" -> "unconfigured"
              [] OTHER -> "error: " \o e
    IN [status |-> 200,
        body |-> [status |-> IF db_state \in {"up", "unimported"}
                             THEN "healthy" ELSE "degraded",
                  database |-> db_status,
                  service |-> "Query Service"],
        session |-> probe(db_state)]

\* detailed_health, lines 211-236
detailed_health(db_state, e) ==
    LET db_status ==
            CASE db_state = "up" -> "connected"
              [] db_state = "unimported" -> "error: NameError"
              [] OTHER -> "error: " \o e
    IN [status |-> 200,
        body |-> [status |-> IF db_status = "connected" THEN "healthy" ELSE "degraded",
                  database |-> db_status,
                  service |-> "Query Service"],
        session |-> probe(db_state)]

\* check_database_health, session.py lines 75-86
check_database_health(db_state) ==
    [status |-> 0, body |-> [healthy |-> db_state = "up"], session |-> probe(db_state)]

\* sessions earlier health checks left open
OpenBefore == IF call.called /\ call.op \in HealthOps THEN call.open_sessions ELSE 0

LeftOpen(session) == IF IsOpen(session) THEN 1 ELSE 0

InitHealth == InitCall

\* GET route, for the three routes that end in detailed_health
DetailedHealth(route, db_state, e) ==
    /\ OpenBefore + LeftOpen(detailed_health(db_state, e).session) <= MaxOpen
    /\ call' = [called |-> TRUE, op |-> "detailed_health", route |-> route,
                db_state |-> db_state, e |-> e,
                status |-> detailed_health(db_state, e).status,
                body |-> detailed_health(db_state, e).body,
                session |-> detailed_health(db_state, e).session,
                open_sessions |->
                    OpenBefore + LeftOpen(detailed_health(db_state, e).session)]
    /\ UNCHANGED notCallVars

CheckDatabaseHealth(db_state, e) ==
    /\ OpenBefore + LeftOpen(check_database_health(db_state).session) <= MaxOpen
    /\ call' = [called |-> TRUE, op |-> "check_database_health", route |-> "",
                db_state |-> db_state, e |-> e,
                status |-> check_database_health(db_state).status,
                body |-> check_database_health(db_state).body,
                session |-> check_database_health(db_state).session,
                open_sessions |->
                    OpenBefore + LeftOpen(check_database_health(db_state).session)]
    /\ UNCHANGED notCallVars

NextHealth ==
    \/ \E route \in HealthRoutes, db_state \in DbStates, e \in ProbeErrors :
           DetailedHealth(route, db_state, e)
    \/ \E db_state \in DbStates, e \in ProbeErrors : CheckDatabaseHealth(db_state, e)

SpecHealth == InitHealth /\ [][NextHealth]_vars

C26_HealthChecksCloseTheirSession ==
    (call.called /\ call.op \in HealthOps) =>
        /\ ~IsOpen(call.session)
        /\ call.open_sessions = 0

(***************************************************************************)
(* Recovery from throttling.  Time passes and the throttled device keeps   *)
(* sending /mobile requests: both are weakly fair.                         *)
(***************************************************************************)

KeepsRequesting(k) ==
    \E req \in RateRequests :
        /\ ClientKey(req) = k
        /\ StartsWithMobile(req.path)
        /\ RateLimitDispatch(req)

SpecRateLive ==
    /\ SpecRate
    /\ WF_vars(\E d \in Advances : AdvanceClock(d))
    /\ \A k \in {"devA", "devB"} : WF_vars(KeepsRequesting(k))

\* the admitted requests of key k that are less than a window old at time t
AdmittedRecently(k, t) ==
    { i \in 1..Len(Get(forwarded, k)) : t - forwarded[k][i] < Window }

\* key k was just answered 429, and its window runs out within the time the
\* clock of the model covers
ThrottledWithin(k) ==
    /\ rl.seen /\ rl.limited /\ rl.key = k /\ rl.status = 429
    /\ Cardinality(AdmittedRecently(k, MaxTime)) < requests_per_minute

\* C27: a /mobile request is admitted exactly when fewer than
\* requests_per_minute admitted requests of its key are less than 60 seconds
\* old; a rejected request is recorded nowhere, so it never prolongs the
\* throttling; a throttled device that keeps requesting is eventually
\* admitted again.
C27_ThrottledDeviceIsReadmitted ==
    /\ [][ ( /\ rl'.seen /\ rl'.limited
             /\ (rl' # rl \/ request_counts' # request_counts \/ forwarded' # forwarded) )
           => LET k == rl'.key
              IN /\ (rl'.status = 200) <=>
                       (Cardinality(AdmittedRecently(k, now)) < requests_per_minute)
                 /\ rl'.status = 429 =>
                       /\ forwarded' = forwarded
                       /\ request_counts'[k] =
                             SelectSeq(Get(forwarded, k), LAMBDA x : now - x < Window) ]_vars
    /\ \A k \in {"devA", "devB"} :
          ThrottledWithin(k) ~> (rl.key = k /\ rl.limited /\ rl.status = 200)

C27_Witness ==
    /\ ThrottledWithin("devA")
    /\ rl.at > 0
    /\ Len(forwarded["devA"]) = requests_per_minute

\* C28: a request whose path does not start with /mobile is forwarded, never
\* answered 429, and leaves every rate-limit counter as it was, whatever the
\* counters hold.
C28_OtherPathsBypassTheLimiter ==
    [][ (rl'.seen /\ ~rl'.limited /\ rl' # rl) =>
           /\ rl'.status = 200
           /\ rl'.forwarded
           /\ request_counts' = request_counts
           /\ forwarded' = forwarded ]_vars

C28_Witness ==
    /\ rl.seen /\ ~rl.limited /\ rl.status = 200 /\ rl.forwarded
    /\ Len(Recent(Get(request_counts, rl.key), now)) >= requests_per_minute

====
